---------------------------- MODULE Spec2Model ----------------------------
(***************************************************************************)
(* Model of zonefile.py: the time-literal converter (ConvertTime), the     *)
(* line tokenizer and serializer, the normalizer passes and the record     *)
(* dispatcher of ParseZoneFile, its validator, and GenerateZoneFile.       *)
(*                                                                         *)
(* Python strings are TLA+ strings; a character is a string of length 1.   *)
(* A Python call that can raise is modelled by an operator that returns a  *)
(* record [exc |-> name of the exception or "" , val |-> result].          *)
(* A Python int is kept as its canonical decimal text, [int |-> "86400"],  *)
(* because Python ints are unbounded and the code compares them with 2^31. *)
(***************************************************************************)
EXTENDS Integers, Sequences, FiniteSets, TLC

VARIABLES
    timeIn,      \* ConvertTime.convert: the argument txt
    timeOut,     \* ConvertTime.convert: the outcome of the call
    timePc,      \* "ready" before the call, "done" after it, "off" when not in use
    tokIn,       \* _tokenize_line: the argument line
    tokOut,      \* _tokenize_line: the outcome of the call
    tokPc,       \* "ready" before the call, "done" after it, "back" after the tokens
                 \* were serialized and tokenized again, "off" when not in use
    tokBack,     \* _tokenize_line on the serialized tokens: the outcome of the call
    zoneIn,      \* ParseZoneFile: self.__input, the text handed to the constructor
    pc,          \* "new" before the constructor, "parsed" after it, "raised" when it
                 \* raised, "rendered" after GenerateZoneFile, "reparsed" after the
                 \* rendered text was parsed again, "off" when not in use
    parser,      \* ParseZoneFile: self._text, self.__lasthost, self.__current_origin,
                 \* self._zonedict and self.__ruleerror
    exc,         \* the exception that left the last call, "" for none
    calls,       \* the number of calls of validate() on the object
    result,      \* the pair returned by the last call of validate()
    zoneOut,     \* GenerateZoneFile: the text that showtext() returns
    reparsed,    \* the outcome of ParseZoneFile on zoneOut
    callFn,      \* the method that is called on its own, "" when none is
    callArg,     \* the argument of that call
    callOut,     \* the outcome of that call
    callPc       \* "ready" before the call, "done" after it, "off" when not in use

timeVars == <<timeIn, timeOut, timePc>>

tokVars == <<tokIn, tokOut, tokPc, tokBack>>

zoneVars == <<zoneIn, pc, parser, exc, calls, result, zoneOut, reparsed>>

callVars == <<callFn, callArg, callOut, callPc>>

vars == <<timeIn, timeOut, timePc, tokIn, tokOut, tokPc, tokBack,
          zoneIn, pc, parser, exc, calls, result, zoneOut, reparsed,
          callFn, callArg, callOut, callPc>>

----------------------------------------------------------------------------
(* Bounds of the model *)

\* longest time literal enumerated character by character
MaxTimeLen == 3

\* longest line enumerated character by character for the tokenizer
MaxTokLen == 4

\* most lines of a zone text composed from the line pool
MaxZoneLines == 2

\* most calls of validate() on one parser object
MaxValidate == 2

\* most logical records of a text handed to _Levelout
MaxLevelItems == 2

\* the length of the longest enumerated hostname
MaxHostLen == 3

----------------------------------------------------------------------------
(* Python str primitives *)

Ch(s, i) == SubSeq(s, i, i)

Ok(v) == [exc |-> "", val |-> v]

Raise(e) == [exc |-> e, val |-> ""]

LowerLetters == "abcdefghijklmnopqrstuvwxyz"

UpperLetters == "ABCDEFGHIJKLMNOPQRSTUVWXYZ"

DigitChars == {"0", "1", "2", "3", "4", "5", "6", "7", "8", "9"}

\* the upper-case letter of every lower-case letter
UpperMap ==
    [c \in {Ch(LowerLetters, i) : i \in 1..26} |->
        Ch(UpperLetters, CHOOSE i \in 1..26 : Ch(LowerLetters, i) = c)]

\* the lower-case letter of every upper-case letter
LowerMap ==
    [c \in {Ch(UpperLetters, i) : i \in 1..26} |->
        Ch(LowerLetters, CHOOSE i \in 1..26 : Ch(UpperLetters, i) = c)]

\* A local name of the code: Body applied to value, which is evaluated once
\* however often the body reads it
With(value, Body(_)) == Body(value)

\* A Python loop over the characters of a string: the loop body Step(state, char)
\* applied from left to right. The string is halved, and the state after the
\* left half is evaluated (left = left) before the right half is entered, so
\* that the depth of the evaluation grows with the logarithm of the length.
FoldStr(Step(_, _), state, string) ==
    LET RECURSIVE go(_, _)
        go(st, s) ==
            IF Len(s) = 0 THEN st
            ELSE IF Len(s) = 1 THEN Step(st, s)
            ELSE LET h == Len(s) \div 2
                     left == go(st, SubSeq(s, 1, h))
                 IN  IF left = left THEN go(left, SubSeq(s, h + 1, Len(s))) ELSE st
    IN  go(state, string)

\* A Python loop over the elements of a list, as FoldStr
FoldSeq(Step(_, _), state, list) ==
    LET RECURSIVE go(_, _)
        go(st, s) ==
            IF Len(s) = 0 THEN st
            ELSE IF Len(s) = 1 THEN Step(st, s[1])
            ELSE LET h == Len(s) \div 2
                     left == go(st, SubSeq(s, 1, h))
                 IN  IF left = left THEN go(left, SubSeq(s, h + 1, Len(s))) ELSE st
    IN  go(state, list)

RECURSIVE concat(_)
\* "".join(list)
concat(list) ==
    IF Len(list) = 0 THEN ""
    ELSE IF Len(list) = 1 THEN list[1]
    ELSE LET h == Len(list) \div 2
         IN  concat(SubSeq(list, 1, h)) \o concat(SubSeq(list, h + 1, Len(list)))

\* str.upper()
upper(s) ==
    concat([i \in 1..Len(s) |-> IF Ch(s, i) \in DOMAIN UpperMap THEN UpperMap[Ch(s, i)]
                                ELSE Ch(s, i)])

\* str.lower()
lower(s) ==
    concat([i \in 1..Len(s) |-> IF Ch(s, i) \in DOMAIN LowerMap THEN LowerMap[Ch(s, i)]
                                ELSE Ch(s, i)])

\* str.isspace() on one character of the model's alphabet
isspace(c) == c \in {" ", "\t", "\n", "\r", "\f"}

startswith(s, p) == Len(s) >= Len(p) /\ SubSeq(s, 1, Len(p)) = p

endswith(s, p) == Len(s) >= Len(p) /\ SubSeq(s, Len(s) - Len(p) + 1, Len(s)) = p

\* c in s, for a character c
contains(s, c) == \E i \in 1..Len(s) : Ch(s, i) = c

RECURSIVE lstripWs(_)
lstripWs(s) == IF s # "" /\ isspace(Ch(s, 1)) THEN lstripWs(SubSeq(s, 2, Len(s))) ELSE s

RECURSIVE rstripWs(_)
rstripWs(s) == IF s # "" /\ isspace(Ch(s, Len(s))) THEN rstripWs(SubSeq(s, 1, Len(s) - 1)) ELSE s

\* str.strip()
strip(s) == rstripWs(lstripWs(s))

----------------------------------------------------------------------------
(* Python int: int(str), str(int) and comparisons, on canonical decimal text *)

DigitVal(c) == CASE c = "0" -> 0 [] c = "1" -> 1 [] c = "2" -> 2 [] c = "3" -> 3 [] c = "4" -> 4
                 [] c = "5" -> 5 [] c = "6" -> 6 [] c = "7" -> 7 [] c = "8" -> 8 [] c = "9" -> 9

IsDigits(s) == s # "" /\ \A i \in 1..Len(s) : Ch(s, i) \in DigitChars

RECURSIVE dropZeros(_)
dropZeros(s) == IF Len(s) > 1 /\ Ch(s, 1) = "0" THEN dropZeros(SubSeq(s, 2, Len(s))) ELSE s

dropUnderscores(s) == concat([i \in 1..Len(s) |-> IF Ch(s, i) = "_" THEN "" ELSE Ch(s, i)])

\* the digit part of an int literal: digits, with single underscores between digits
IsIntBody(s) ==
    /\ s # ""
    /\ \A i \in 1..Len(s) : Ch(s, i) \in DigitChars \cup {"_"}
    /\ Ch(s, 1) # "_"
    /\ Ch(s, Len(s)) # "_"
    /\ \A i \in 1..(Len(s) - 1) : ~(Ch(s, i) = "_" /\ Ch(s, i + 1) = "_")

\* int(s): surrounding whitespace, an optional sign, the digit part
int(s) ==
    With(strip(s), LAMBDA t :
    With(IF t # "" /\ Ch(t, 1) \in {"+", "-"} THEN SubSeq(t, 2, Len(t)) ELSE t, LAMBDA body :
        IF ~IsIntBody(body) THEN Raise("ValueError")
        ELSE With(dropZeros(dropUnderscores(body)), LAMBDA digits :
             Ok([int |-> IF Ch(t, 1) = "-" /\ digits # "0" THEN "-" \o digits ELSE digits]))))

\* str(n)
str(n) == n.int

IsNeg(n) == Ch(n.int, 1) = "-"

RECURSIVE MagLess(_, _)
\* a < b for canonical non-negative decimal texts: the shorter text is the
\* smaller number, and texts of one length compare digit by digit
MagLess(a, b) ==
    IF Len(a) # Len(b) THEN Len(a) < Len(b)
    ELSE IF a = "" THEN FALSE
    ELSE IF Ch(a, 1) # Ch(b, 1) THEN DigitVal(Ch(a, 1)) < DigitVal(Ch(b, 1))
    ELSE MagLess(SubSeq(a, 2, Len(a)), SubSeq(b, 2, Len(b)))

\* n < m for Python ints
IntLess(n, m) ==
    CASE IsNeg(n) /\ ~IsNeg(m) -> TRUE
      [] ~IsNeg(n) /\ IsNeg(m) -> FALSE
      [] ~IsNeg(n) /\ ~IsNeg(m) -> MagLess(n.int, m.int)
      [] OTHER -> MagLess(SubSeq(m.int, 2, Len(m.int)), SubSeq(n.int, 2, Len(n.int)))

IntLeq(n, m) == n = m \/ IntLess(n, m)

PyInt(k) == [int |-> ToString(k)]

\* 2**31, which is one more than the largest integer TLC computes with
Two31 == [int |-> "2147483648"]

MaxNat == 2147483647

RECURSIVE NatOfDigits(_)
\* the value of a canonical decimal text below 2^31
NatOfDigits(s) ==
    IF s = "" THEN 0 ELSE 10 * NatOfDigits(SubSeq(s, 1, Len(s) - 1)) + DigitVal(Ch(s, Len(s)))

\* n * k for a Python int n >= 0 and a small factor k >= 1; every product of
\* 2^31 or more is represented by 2^31 itself: the callers only compare the
\* product with bounds that are at most 2^31.
TimesSat(n, k) ==
    IF IntLess(n, Two31) /\ NatOfDigits(n.int) <= MaxNat \div k
    THEN PyInt(NatOfDigits(n.int) * k)
    ELSE Two31

----------------------------------------------------------------------------
(* class ConvertTime *)

minutes == 60

hour == 3600

day == 86400

\* CheckRange with the lower limit off by one: 900 itself is rejected
CheckRange_LowerOff(intvalue, timeerror) ==
    IF IntLeq(intvalue, PyInt(900)) \/ ~IntLess(intvalue, Two31)
    THEN <<"86400", TRUE>>
    ELSE <<str(intvalue), timeerror>>

\* the range check at the end of convert
CheckRange(intvalue, timeerror) ==
    IF IntLess(intvalue, PyInt(900)) \/ ~IntLess(intvalue, Two31)
    THEN <<"86400", TRUE>>
    ELSE <<str(intvalue), timeerror>>

\* the multiplier of a unit of convert
UnitFactor(unit) ==
    CASE unit = "S" -> 1
      [] unit = "M" -> minutes
      [] unit = "H" -> hour
      [] unit = "D" -> day
      [] unit = "W" -> 7 * day

\* ConvertTime.convert(txt): the pair (self.__txtvalue, self.__timeerror), or
\* the exception of the int() inside the except branch
convert(txt) ==
    With("0" \o upper(txt), LAMBDA txtvalue :
    With(int(txtvalue), LAMBDA first :
        IF first.exc = "" THEN Ok(CheckRange(first.val, FALSE))
        ELSE With(Ch(txtvalue, Len(txtvalue)), LAMBDA unit :
             IF unit \notin {"S", "M", "H", "D", "W"} THEN Ok(CheckRange(PyInt(86400), TRUE))
             ELSE With(int(SubSeq(txtvalue, 1, Len(txtvalue) - 1)), LAMBDA value :
                  IF value.exc # "" THEN Raise(value.exc)
                  ELSE Ok(CheckRange(TimesSat(value.val, UnitFactor(unit)), FALSE))))))

----------------------------------------------------------------------------
(* ParseZoneFile: tokenizer and serializer *)

RECURSIVE lstripCh(_, _)
\* str.lstrip(c) for one character c
lstripCh(s, c) == IF s # "" /\ Ch(s, 1) = c THEN lstripCh(SubSeq(s, 2, Len(s)), c) ELSE s

RECURSIVE rstripCh(_, _)
\* str.rstrip(c) for one character c
rstripCh(s, c) == IF s # "" /\ Ch(s, Len(s)) = c THEN rstripCh(SubSeq(s, 1, Len(s) - 1), c) ELSE s

\* str.strip(c) for one character c
stripCh(s, c) == rstripCh(lstripCh(s, c), c)

\* the body of the while loop of _tokenize_line for one character; done is
\* set by the break at a comment
TokenizeStep(st, char) ==
    IF st.done THEN st
    ELSE IF isspace(char) THEN
        IF ~st.quote /\ ~st.escape
        THEN [st EXCEPT !.ret = IF Len(st.tokenbuffer) > 0 THEN Append(@, st.tokenbuffer) ELSE @,
                        !.tokenbuffer = ""]
        ELSE IF st.quote
        THEN [st EXCEPT !.tokenbuffer = @ \o char]
        ELSE [st EXCEPT !.tokenbuffer = @ \o char, !.escape = FALSE]
    ELSE IF char = "\\" THEN [st EXCEPT !.escape = TRUE]
    ELSE IF char = "\"" /\ ~st.escape THEN
        IF st.quote
        THEN [st EXCEPT !.ret = Append(@, st.tokenbuffer), !.tokenbuffer = "", !.quote = FALSE]
        ELSE [st EXCEPT !.quote = TRUE]
    ELSE IF char = ";" /\ ~st.escape /\ ~st.quote
    THEN [st EXCEPT !.ret = Append(@, st.tokenbuffer), !.tokenbuffer = "", !.done = TRUE]
    ELSE [st EXCEPT !.tokenbuffer = @ \o char, !.escape = FALSE]

\* the while loop of _tokenize_line
TokenizeScan(line) ==
    FoldStr(TokenizeStep,
            [ret |-> <<>>, escape |-> FALSE, quote |-> FALSE, tokenbuffer |-> "", done |-> FALSE],
            line)

\* ParseZoneFile._tokenize_line(line): a leading blank gives the token "_",
\* and a token buffer that is not blank at the end is the last token
tokenize_line(line) ==
    IF line = "" THEN Raise("IndexError")
    ELSE With(TokenizeScan(line), LAMBDA scan :
         Ok((IF Ch(line, 1) = " " \/ Ch(line, 1) = "\t" THEN <<"_">> ELSE <<>>)
            \o scan.ret
            \o (IF Len(stripCh(stripCh(scan.tokenbuffer, " "), "\n")) > 0
                THEN <<scan.tokenbuffer>> ELSE <<>>)))

\* str.replace(c, new) for one character c
replaceCh(s, c, new) == concat([i \in 1..Len(s) |-> IF Ch(s, i) = c THEN new ELSE Ch(s, i)])

\* sep.join(list)
join(sep, list) == concat([i \in 1..Len(list) |-> IF i = 1 THEN list[1] ELSE sep \o list[i]])

\* the body of the loop of _serialize, for one token
SerializeToken(tok) ==
    LET t1 == IF contains(tok, " ") THEN "\"" \o tok \o "\"" ELSE tok
        t2 == IF contains(t1, "\t") THEN "\"" \o t1 \o "\"" ELSE t1
    IN  IF contains(t2, ";") THEN replaceCh(t2, ";", "\\;") ELSE t2

\* ParseZoneFile._serialize(tokens)
serialize(tokens) == join(" ", [i \in 1..Len(tokens) |-> SerializeToken(tokens[i])])

----------------------------------------------------------------------------
(* Python list and str helpers used by the normalizer passes *)

\* the positions of the character c in s, in increasing order
positions(s, c) ==
    LET P == {i \in 1..Len(s) : Ch(s, i) = c}
    IN  [k \in 1..Cardinality(P) |-> CHOOSE p \in P : Cardinality({r \in P : r < p}) = k - 1]

\* str.split(sep) for a one-character separator
split(s, sep) ==
    LET pos == positions(s, sep)
        n == Len(pos)
    IN  [k \in 1..(n + 1) |->
            SubSeq(s, IF k = 1 THEN 1 ELSE pos[k - 1] + 1, IF k = n + 1 THEN Len(s) ELSE pos[k] - 1)]

\* str.split() without a separator
splitWs(s) ==
    SelectSeq(split(concat([i \in 1..Len(s) |-> IF isspace(Ch(s, i)) THEN " " ELSE Ch(s, i)]), " "),
              LAMBDA x : Len(x) > 0)

\* list.pop(i), positions counted from 1
pop(list, i) == SubSeq(list, 1, i - 1) \o SubSeq(list, i + 1, Len(list))

----------------------------------------------------------------------------
(* ParseZoneFile: the normalizer passes *)

\* ParseZoneFile._ShakeoffComments: the new value of self._text
ShakeoffComments(text) ==
    LET lines == SelectSeq(split(text, "\n"), LAMBDA line : Len(strip(line)) # 0)
    IN  join("\n", [i \in 1..Len(lines) |-> serialize(tokenize_line(lines[i]).val)])

\* the first loop of _Levelout for one line: the words of the line followed
\* by '' for its end
LeveloutLine(tokens, line) ==
    IF Len(line) = 0 THEN tokens
    ELSE LET l == replaceCh(replaceCh(line, "\t", " "), "'", "\"")
         IN  tokens \o SelectSeq(split(l, " "), LAMBDA x : Len(x) > 0) \o <<"">>

\* the placeholder "_" anywhere but at the head of a flattened line becomes a space
RestoreBlanks(captured) ==
    [i \in 1..Len(captured) |-> IF i > 1 /\ captured[i] = "_" THEN " " ELSE captured[i]]

\* the body of the second loop of _Levelout for one token
LeveloutStep(st, tok) ==
    LET opens == startswith(tok, "(")
        tok1 == IF opens THEN lstripCh(tok, "(") ELSE tok
        cap1 == st.capturing \/ opens
        closes == cap1 /\ endswith(tok1, ")")
        tok2 == IF closes THEN rstripCh(tok1, ")") ELSE tok1
    IN  IF ~st.capturing /\ Len(tok) = 0
        THEN IF Len(st.captured) > 0
             THEN [st EXCEPT !.levelout = Append(@, join(" ", RestoreBlanks(st.captured))),
                             !.captured = <<>>]
             ELSE st
        ELSE [st EXCEPT !.capturing = cap1 /\ ~closes, !.captured = Append(@, tok2)]

\* ParseZoneFile._Levelout: the new value of self._text
Levelout(text) ==
    LET tokens == FoldSeq(LeveloutLine, <<>>, split(text, "\n"))
        scan == FoldSeq(LeveloutStep, [capturing |-> FALSE, captured |-> <<>>, levelout |-> <<>>], tokens)
    IN  join("\n", scan.levelout)

\* re.sub of a directive keyword written in any case and followed by a space
\* by the keyword in capitals and the space; a match and its replacement have
\* the same length and two matches never overlap
subKeyword(line, keyword) ==
    LET L == Len(keyword)
        starts == {j \in 1..(Len(line) - L + 1) : upper(SubSeq(line, j, j + L - 1)) = keyword}
    IN  concat([i \in 1..Len(line) |->
                  IF \E j \in starts : j <= i /\ i < j + L
                  THEN Ch(keyword, i + 1 - CHOOSE j \in starts : j <= i /\ i < j + L)
                  ELSE Ch(line, i)])

\* ParseZoneFile._CapitalLetterKeys: the new value of self._text
CapitalLetterKeys(text) ==
    LET lines == split(text, "\n")
    IN  join("\n", [i \in 1..Len(lines) |-> subKeyword(subKeyword(lines[i], "$ORIGIN "), "$TTL ")])

\* the record types of the pattern of _AddLastHost and _Fillup
PatternTypes == {"NS", "MX", "A", "AAAA", "HINFO", "CNAME", "TXT", "SRV", "URI", "PTR"}

\* the type keyword between two spaces that starts at position i of the line and
\* is followed by at least one character, "" when there is none
TypeAt(line, i) ==
    LET hit == {t \in PatternTypes :
                  /\ i + Len(t) + 1 < Len(line)
                  /\ upper(SubSeq(line, i, i + Len(t) + 1)) = " " \o t \o " "}
    IN  IF hit = {} THEN "" ELSE CHOOSE t \in hit : TRUE

\* re.match(r"(.+?)( NS | MX | A | AAAA | HINFO | CNAME | TXT | SRV | URI | PTR )(.+)", line, re.I):
\* the shortest non-empty prefix that is followed by a type keyword
MatchRecord(line) ==
    LET at == {i \in 2..Len(line) : TypeAt(line, i) # ""}
        i == CHOOSE k \in at : \A j \in at : k <= j
    IN  IF at = {} THEN [matched |-> FALSE, partone |-> "", record_type |-> "", parameter |-> ""]
        ELSE [matched |-> TRUE,
              partone |-> SubSeq(line, 1, i - 1),
              record_type |-> TypeAt(line, i),
              parameter |-> SubSeq(line, i + Len(TypeAt(line, i)) + 2, Len(line))]

RECURSIVE PopIN(_, _, _)
\* for i in range(len(lp)): if lp[i] == 'IN': lp.pop(i)
\* the range is fixed before the loop, so an index past the shortened list raises
PopIN(lp, i, n) ==
    IF i > n THEN Ok(lp)
    ELSE IF i > Len(lp) THEN Raise("IndexError")
    ELSE IF lp[i] = "IN" THEN PopIN(pop(lp, i), i + 1, n)
    ELSE PopIN(lp, i + 1, n)

\* the characters of the class [a-z0-9-@_] under re.I
OwnerChars == DOMAIN UpperMap \cup DOMAIN LowerMap \cup DigitChars \cup {"-", "@", "_"}

RECURSIVE leadingDigits(_)
leadingDigits(s) ==
    IF s # "" /\ Ch(s, 1) \in DigitChars THEN Ch(s, 1) \o leadingDigits(SubSeq(s, 2, Len(s))) ELSE ""

\* re.match(r"([a-z0-9-@_]+?)*[ \t]+([0-9]*)", partone, re.I) on the words lp
\* of partone, joined by one space: it matches when the first word is made of
\* class characters and a second word follows; group 1 is the last repetition
\* of the lazy group, which is the last character of the first word
MatchOwner(lp) ==
    IF Len(lp) >= 2 /\ \A i \in 1..Len(lp[1]) : Ch(lp[1], i) \in OwnerChars
    THEN [hostname |-> Ch(lp[1], Len(lp[1])), ttl |-> leadingDigits(lp[2])]
    ELSE [hostname |-> join(" ", lp), ttl |-> "0"]

\* the body of the loop of _AddLastHost for a record line: the line to append
\* ("" for none) and the new value of self.__lasthost
AddLastHostLine(line, lasthost) ==
    With(MatchRecord(line), LAMBDA m :
    With(IF Len(m.partone) > 0 THEN PopIN(splitWs(m.partone), 1, Len(splitWs(m.partone)))
         ELSE Ok(<<>>), LAMBDA lp :
        IF lp.exc # "" THEN [exc |-> lp.exc, line |-> "", lasthost |-> lasthost]
        ELSE
    With(IF Len(m.partone) > 0 THEN MatchOwner(lp.val) ELSE [hostname |-> "", ttl |-> ""],
         LAMBDA owner :
    With(IF owner.hostname = "_" THEN lasthost ELSE owner.hostname, LAMBDA hostname :
        [exc |-> "",
         line |-> IF Len(m.record_type) # 0
                  THEN hostname \o " " \o owner.ttl \o " " \o m.record_type \o " " \o m.parameter
                  ELSE "",
         lasthost |-> hostname]))))

\* the body of the loop of _AddLastHost for one line
AddLastHostStep(st, line) ==
    IF st.exc # "" THEN st
    ELSE With(tokenize_line(line), LAMBDA linetokens :
         IF linetokens.exc # "" THEN [st EXCEPT !.exc = linetokens.exc]
         ELSE IF Len(linetokens.val) = 0 THEN st
         ELSE IF startswith(line, "$") THEN [st EXCEPT !.ret = Append(@, line)]
         ELSE IF startswith(line, "@ SOA")
         THEN [st EXCEPT !.ret = Append(@, line), !.lasthost = "@"]
         ELSE With(AddLastHostLine(line, st.lasthost), LAMBDA r :
              IF r.exc # "" THEN [st EXCEPT !.exc = r.exc]
              ELSE [st EXCEPT !.ret = IF r.line = "" THEN @ ELSE Append(@, r.line),
                              !.lasthost = r.lasthost]))

\* ParseZoneFile._AddLastHost: the new values of self._text and self.__lasthost
AddLastHost(text, lasthost) ==
    With(FoldSeq(AddLastHostStep, [exc |-> "", ret |-> <<>>, lasthost |-> lasthost],
                 split(text, "\n")), LAMBDA scan :
        [exc |-> scan.exc, val |-> join("\n", scan.ret), lasthost |-> scan.lasthost])

----------------------------------------------------------------------------
(* ParseZoneFile: the record grammar (argparse subparsers) and the dispatcher *)

SUPPORTED_RECORDS ==
    {"$ORIGIN", "$TTL", "SOA", "NS", "A", "AAAA", "CNAME", "MX", "PTR", "TXT", "SRV", "URI", "HINFO"}

\* _ckeck_records: the positional arguments that follow name, ttl and the type
\* in the subparser of a record type, each with its argparse type
args_and_types(rec_type) ==
    CASE rec_type = "SOA" -> <<<<"mname", "str">>, <<"rname", "str">>, <<"serial", "int">>,
                               <<"refresh", "int">>, <<"retry", "int">>, <<"expire", "int">>,
                               <<"minimum", "int">>>>
      [] rec_type = "NS" -> <<<<"host", "str">>>>
      [] rec_type = "A" -> <<<<"ip", "str">>>>
      [] rec_type = "AAAA" -> <<<<"ip", "str">>>>
      [] rec_type = "CNAME" -> <<<<"alias", "str">>>>
      [] rec_type = "MX" -> <<<<"preference", "str">>, <<"host", "str">>>>
      [] rec_type = "PTR" -> <<<<"host", "str">>>>
      [] rec_type = "SRV" -> <<<<"priority", "int">>, <<"weight", "int">>, <<"port", "int">>,
                               <<"target", "str">>>>
      [] rec_type = "URI" -> <<<<"priority", "int">>, <<"weight", "int">>, <<"target", "str">>>>
      [] rec_type = "HINFO" -> <<<<"cpu", "str">>, <<"system", "str">>>>

EmptyDict == [k \in {} |-> ""]

\* d[k] = v on a dict
SetItem(d, k, v) == (k :> v) @@ d

\* del d[k]
DelItem(d, k) == [j \in DOMAIN d \ {k} |-> d[j]]

\* the argparse conversion of one argument
ArgValue(type, arg) == IF type = "int" THEN int(arg) ELSE Ok(arg)

\* the namespace with the value of the optional ttl; a failed conversion of
\* it ends in ZonefileLineParser.error
WithTtl(namespace, ttl) ==
    IF namespace.exc # "" \/ ttl.exc # "" THEN Raise("InvalidLineException")
    ELSE Ok(SetItem(namespace.val, "ttl", ttl.val))

\* the namespace filled from the type at args[off] and the fields after it,
\* each converted as its argparse type asks
RrPositionals(rec_type, args, off) ==
    With(args_and_types(rec_type), LAMBDA fields :
    With([i \in 1..Len(fields) |-> ArgValue(fields[i][2], args[off + i])], LAMBDA vals :
        IF \E i \in 1..Len(vals) : vals[i].exc # "" THEN Raise("InvalidLineException")
        ELSE Ok(FoldSeq(LAMBDA d, i : SetItem(d, fields[i][1], vals[i].val),
                        ("name" :> args[1]) @@ (rec_type :> args[off]),
                        [i \in 1..Len(vals) |-> i]))))

\* the namespace that a subparser made by _make_rr_subparser fills from the
\* arguments args: name, the optional ttl, the type and the fields, by position;
\* arguments beyond the last field are left unmatched; too few arguments or a
\* failed int conversion end in ZonefileLineParser.error
RrSubparser(rec_type, args) ==
    IF Len(args) < Len(args_and_types(rec_type)) + 2 THEN Raise("InvalidLineException")
    ELSE IF Len(args) >= Len(args_and_types(rec_type)) + 3
    THEN WithTtl(RrPositionals(rec_type, args, 3), int(args[2]))
    ELSE RrPositionals(rec_type, args, 2)

\* the namespace with name, TXT at args[off] and the strings after it; the
\* value of 'txt' is written [list |-> strings] while it is a list and
\* [str |-> string] once _parse_line has replaced a list of one string by the string
TxtPositionals(args, off) ==
    IF Len(args) < off + 1 THEN Raise("InvalidLineException")
    ELSE Ok(("name" :> args[1]) @@ ("TXT" :> args[off])
            @@ ("txt" :> [list |-> SubSeq(args, off + 1, Len(args))]))

\* the namespace that the subparser made by _make_txt_subparser fills: name,
\* the option --ttl with its value, TXT and one or more strings
TxtSubparser(args) ==
    IF Len(args) < 1 THEN Raise("InvalidLineException")
    ELSE IF Len(args) >= 2 /\ args[2] = "--ttl"
    THEN IF Len(args) < 3 THEN Raise("InvalidLineException")
         ELSE WithTtl(TxtPositionals(args, 4), int(args[3]))
    ELSE TxtPositionals(args, 2)

\* myparser.parse_known_args(record_token): the namespace as a dict without its
\* None entries; the arguments are the words of a line, of which only a negative
\* number or the inserted --ttl starts with "-"
parse_known_args(record_token) ==
    LET cmd == record_token[1]
        args == Tail(record_token)
    IN  IF cmd \notin SUPPORTED_RECORDS THEN Raise("InvalidLineException")
        ELSE IF cmd = "$ORIGIN"
             THEN IF Len(args) < 1 THEN Raise("InvalidLineException") ELSE Ok("$ORIGIN" :> args[1])
        ELSE IF cmd = "$TTL"
             THEN IF Len(args) < 1 THEN Raise("InvalidLineException")
                  ELSE With(int(args[1]), LAMBDA value :
                       IF value.exc # "" THEN Raise("InvalidLineException")
                       ELSE Ok("$TTL" :> value.val))
        ELSE IF cmd = "TXT" THEN TxtSubparser(args)
        ELSE RrSubparser(cmd, args)

\* the SOA timers of _parse_line: record_token[i], terr = ct.convert(record_token[i])
\* for i in 5..8, one after the other
ConvertSoaTimers(record_token) ==
    FoldSeq(LAMBDA st, i :
                IF st.exc # "" THEN st
                ELSE IF Len(st.val) < i THEN Raise("IndexError")
                ELSE With(convert(st.val[i]), LAMBDA c :
                     IF c.exc # "" THEN Raise(c.exc) ELSE Ok([st.val EXCEPT ![i] = c.val[1]])),
            Ok(record_token), <<6, 7, 8, 9>>)

\* the tokens handed to the parser: the record type is put in front
Dispatch(record_token) ==
    IF Len(record_token) >= 2 /\ record_token[2] \in SUPPORTED_RECORDS
    THEN <<record_token[2]>> \o record_token
    ELSE IF Len(record_token) >= 3 /\ record_token[3] \in SUPPORTED_RECORDS
    THEN IF record_token[3] = "TXT"
         THEN <<"TXT", record_token[1], "--ttl">> \o Tail(record_token)
         ELSE <<record_token[3]>> \o record_token
    ELSE record_token

\* the record type found in the namespace: the first key that is a supported
\* type and either a directive or equal to its own value; "" stands for None
RecordTypeOf(record_dict) ==
    LET hit == {key \in DOMAIN record_dict \cap SUPPORTED_RECORDS :
                  startswith(key, "$") \/ record_dict[key] = key}
    IN  IF hit = {} THEN "" ELSE CHOOSE key \in hit : TRUE

\* StoreRecord with list.insert(0, record_dict) in the place of list.append
StoreRecord_Prepend(rr, current_origin, parsed_records) ==
    With(RecordTypeOf(rr), LAMBDA record_type :
    With(IF "txt" \in DOMAIN rr /\ Len(rr["txt"].list) = 1
         THEN [rr EXCEPT !["txt"] = [str |-> @.list[1]]] ELSE rr, LAMBDA single :
    With(IF record_type \notin {"", "$TTL"} /\ single[record_type] = record_type
         THEN DelItem(single, record_type) ELSE single, LAMBDA cleaned :
    With(IF record_type = "PTR"
         THEN SetItem(cleaned, "fullname", cleaned["name"] \o "." \o current_origin)
         ELSE cleaned, LAMBDA record_dict :
    With(lower(record_type), LAMBDA record_dict_key :
        IF DOMAIN record_dict = {} THEN Ok(parsed_records)
        ELSE IF record_type = "" THEN Raise("AttributeError")
        ELSE IF startswith(record_type, "$")
        THEN Ok(SetItem(parsed_records, record_dict_key, record_dict[record_type]))
        ELSE Ok(SetItem(parsed_records, record_dict_key,
                        IF record_dict_key \in DOMAIN parsed_records
                        THEN <<record_dict>> \o parsed_records[record_dict_key]
                        ELSE <<record_dict>>)))))))

\* StoreRecord with the fullname of a PTR record made of its host field
StoreRecord_FullnameOfHost(rr, current_origin, parsed_records) ==
    With(RecordTypeOf(rr), LAMBDA record_type :
    With(IF "txt" \in DOMAIN rr /\ Len(rr["txt"].list) = 1
         THEN [rr EXCEPT !["txt"] = [str |-> @.list[1]]] ELSE rr, LAMBDA single :
    With(IF record_type \notin {"", "$TTL"} /\ single[record_type] = record_type
         THEN DelItem(single, record_type) ELSE single, LAMBDA cleaned :
    With(IF record_type = "PTR"
         THEN SetItem(cleaned, "fullname", cleaned["host"] \o "." \o current_origin)
         ELSE cleaned, LAMBDA record_dict :
    With(lower(record_type), LAMBDA record_dict_key :
        IF DOMAIN record_dict = {} THEN Ok(parsed_records)
        ELSE IF record_type = "" THEN Raise("AttributeError")
        ELSE IF startswith(record_type, "$")
        THEN Ok(SetItem(parsed_records, record_dict_key, record_dict[record_type]))
        ELSE Ok(SetItem(parsed_records, record_dict_key,
                        IF record_dict_key \in DOMAIN parsed_records
                        THEN Append(parsed_records[record_dict_key], record_dict)
                        ELSE <<record_dict>>)))))))

\* the end of _parse_line: a list of one TXT string becomes the string, the
\* key of the record type is deleted, a PTR record gets its fullname, and the
\* namespace is stored under the key of its type
StoreRecord(rr, current_origin, parsed_records) ==
    With(RecordTypeOf(rr), LAMBDA record_type :
    With(IF "txt" \in DOMAIN rr /\ Len(rr["txt"].list) = 1
         THEN [rr EXCEPT !["txt"] = [str |-> @.list[1]]] ELSE rr, LAMBDA single :
    With(IF record_type \notin {"", "$TTL"} /\ single[record_type] = record_type
         THEN DelItem(single, record_type) ELSE single, LAMBDA cleaned :
    With(IF record_type = "PTR"
         THEN SetItem(cleaned, "fullname", cleaned["name"] \o "." \o current_origin)
         ELSE cleaned, LAMBDA record_dict :
    With(lower(record_type), LAMBDA record_dict_key :
        IF DOMAIN record_dict = {} THEN Ok(parsed_records)
        ELSE IF record_type = "" THEN Raise("AttributeError")
        ELSE IF startswith(record_type, "$")
        THEN Ok(SetItem(parsed_records, record_dict_key, record_dict[record_type]))
        ELSE Ok(SetItem(parsed_records, record_dict_key,
                        IF record_dict_key \in DOMAIN parsed_records
                        THEN Append(parsed_records[record_dict_key], record_dict)
                        ELSE <<record_dict>>)))))))

\* the tokens of a line after the time conversions of _parse_line: the value
\* of $TTL and the four timers of @ SOA
ConvertedTokens(tokens) ==
    IF Len(tokens) = 0 THEN Raise("IndexError")
    ELSE With(IF upper(tokens[1]) # "$TTL" THEN Ok(tokens)
              ELSE IF Len(tokens) < 2 THEN Raise("IndexError")
              ELSE With(convert(tokens[2]), LAMBDA c :
                   IF c.exc # "" THEN Raise(c.exc) ELSE Ok([tokens EXCEPT ![2] = c.val[1]])),
              LAMBDA t :
         IF t.exc # "" THEN t
         ELSE IF t.val[1] = "@" /\ Len(t.val) < 2 THEN Raise("IndexError")
         ELSE IF t.val[1] = "@" /\ upper(t.val[2]) = "SOA" THEN ConvertSoaTimers(t.val)
         ELSE t)

\* ParseZoneFile._parse_line: the new parsed_records and self.__current_origin
parse_line(tokens, current_origin, parsed_records) ==
    With(ConvertedTokens(tokens), LAMBDA t :
        IF t.exc # ""
        THEN [exc |-> t.exc, val |-> parsed_records, current_origin |-> current_origin]
        ELSE IF upper(t.val[1]) = "$ORIGIN" /\ Len(t.val) < 2
        THEN [exc |-> "IndexError", val |-> parsed_records, current_origin |-> current_origin]
        ELSE
    With(IF upper(t.val[1]) = "$ORIGIN" THEN t.val[2] ELSE current_origin, LAMBDA origin :
    With(parse_known_args(Dispatch(t.val)), LAMBDA rr :
        IF rr.exc # "" THEN [exc |-> rr.exc, val |-> parsed_records, current_origin |-> origin]
        ELSE
    With(StoreRecord(rr.val, origin, parsed_records), LAMBDA stored :
        [exc |-> stored.exc,
         val |-> IF stored.exc = "" THEN stored.val ELSE parsed_records,
         current_origin |-> origin]))))

\* the body of the loop of _parse_lines for one line: a line that the parser
\* rejects is logged and skipped
ParseLinesStep(st, record_line) ==
    IF st.exc # "" THEN st
    ELSE With(tokenize_line(record_line), LAMBDA record_token :
         IF record_token.exc # "" THEN [st EXCEPT !.exc = record_token.exc]
         ELSE With(parse_line(record_token.val, st.current_origin, st.val), LAMBDA r :
              IF r.exc = "InvalidLineException"
              THEN [st EXCEPT !.current_origin = r.current_origin]
              ELSE r))

\* ParseZoneFile._parse_lines: the new self._zonedict and self.__current_origin
parse_lines(text, current_origin) ==
    FoldSeq(ParseLinesStep, [exc |-> "", val |-> EmptyDict, current_origin |-> current_origin],
            split(text, "\n"))

\* ParseZoneFile.__init__(text): the object after the constructor, or the
\* exception that leaves it
construct(text) ==
    With(CapitalLetterKeys(Levelout(ShakeoffComments(text))), LAMBDA capitals :
    With(AddLastHost(capitals, ""), LAMBDA hosts :
        IF hosts.exc # ""
        THEN [exc |-> hosts.exc, text |-> capitals, lasthost |-> hosts.lasthost,
              current_origin |-> "", zonedict |-> EmptyDict]
        ELSE With(parse_lines(hosts.val, ""), LAMBDA parsed :
             [exc |-> parsed.exc, text |-> hosts.val, lasthost |-> hosts.lasthost,
              current_origin |-> parsed.current_origin, zonedict |-> parsed.val])))

----------------------------------------------------------------------------
(* ParseZoneFile: the value checks of validate() *)

\* the characters of the class [a-z0-9-] under re.IGNORECASE
LabelChars == DOMAIN UpperMap \cup DOMAIN LowerMap \cup DigitChars \cup {"-"}

\* allowed.match(label) for allowed = (?!-)[a-z0-9-]{1,63}(?<!-)$
AllowedLabel(label) ==
    /\ Len(label) >= 1
    /\ Len(label) <= 63
    /\ \A i \in 1..Len(label) : Ch(label, i) \in LabelChars
    /\ Ch(label, 1) # "-"
    /\ Ch(label, Len(label)) # "-"

\* ParseZoneFile.__check_hostname(hostname): the values that the length test
\* and the numeric-TLD test give to ret are overwritten by the label test
check_hostname(hostname) ==
    IF hostname = "" THEN Raise("IndexError")
    ELSE With(split(IF Ch(hostname, Len(hostname)) = "."
                    THEN SubSeq(hostname, 1, Len(hostname) - 1)
                    ELSE hostname, "."), LAMBDA labels :
         Ok(\A i \in 1..Len(labels) : AllowedLabel(labels[i])))

\* value is the outcome of an int() that did not raise, and 0 <= value <= max
UpTo(value, max) == value.exc = "" /\ ~IsNeg(value.val) /\ IntLeq(value.val, max)

\* ParseZoneFile.__check_number(token): ret is bound when int() fails and when
\* the value is in range; for a value out of range the return reads a local
\* that was never assigned
check_number(token) ==
    With(int(token), LAMBDA value :
        IF value.exc # "" THEN Ok(FALSE)
        ELSE IF UpTo(value, Two31) THEN Ok(TRUE)
        ELSE Raise("UnboundLocalError"))

\* ParseZoneFile.__check_ipv4(ipv4)
check_ipv4(ipv4) ==
    With(split(ipv4, "."), LAMBDA parts :
        Len(parts) = 4 /\ \A i \in 1..4 : UpTo(int(parts[i]), PyInt(255)))

HexChars == DigitChars \cup {"a", "b", "c", "d", "e", "f", "A", "B", "C", "D", "E", "F"}

\* one octet of ipaddress.IPv4Address: one to three digits, no leading zero, at most 255
Ipv4Octet(part) ==
    /\ IsDigits(part)
    /\ Len(part) <= 3
    /\ (Len(part) > 1 => Ch(part, 1) # "0")
    /\ NatOfDigits(part) <= 255

\* one group of ipaddress.IPv6Address: one to four hexadecimal digits
Ipv6Group(part) ==
    Len(part) \in 1..4 /\ \A i \in 1..Len(part) : Ch(part, i) \in HexChars

\* ParseZoneFile.__check_ipv6(ipv6): ipaddress.ip_address(ipv6) returns an
\* address, which is a dotted quad, or eight
\* groups between colons, where one run of zero groups may be written "::"
\* (an embedded dotted quad and a scope id are outside the modelled texts)
check_ipv6(ipv6) ==
    \/ With(split(ipv6, "."), LAMBDA quad : Len(quad) = 4 /\ \A i \in 1..4 : Ipv4Octet(quad[i]))
    \/ With(split(ipv6, ":"), LAMBDA groups :
       With(Len(groups), LAMBDA n :
       With({i \in 1..n : groups[i] = ""}, LAMBDA empty :
           \/ /\ n = 8
              /\ empty = {}
              /\ \A i \in 1..n : Ipv6Group(groups[i])
           \/ /\ n \in 3..9
              /\ \A i \in (1..n) \ empty : Ipv6Group(groups[i])
              /\ (1 \in empty => 2 \in empty)
              /\ (n \in empty => (n - 1) \in empty)
              /\ Cardinality({i \in empty : 1 < i /\ i < n}) = 1
              /\ n - Cardinality(empty) <= 7)))

----------------------------------------------------------------------------
(* ParseZoneFile: _Fillup *)

\* the $TTL branch of _Fillup: the line to append; a value that convert flags
\* leaves the line as it is
FillupTtl(line) ==
    With(tokenize_line(line), LAMBDA tokens :
        IF tokens.exc # "" THEN tokens
        ELSE IF Len(tokens.val) > 1
        THEN With(convert(tokens.val[2]), LAMBDA c :
             IF c.exc # "" THEN c ELSE Ok(IF c.val[2] THEN line ELSE "$TTL " \o c.val[1]))
        ELSE Ok(line))

\* the @ SOA branch of _Fillup: the line to append; a line of fewer than nine
\* tokens is padded with 'missing'; for a line of more than nine the padding
\* loop appends without end, until the allocation fails; a timer that convert
\* flags is left out of the line
FillupSoa(line) ==
    With(tokenize_line(line), LAMBDA linetokens :
        IF linetokens.exc # "" THEN linetokens
        ELSE IF Len(linetokens.val) > 9 THEN Raise("MemoryError")
        ELSE With(linetokens.val \o [i \in 1..(9 - Len(linetokens.val)) |-> "missing"],
                  LAMBDA tokens :
             FoldSeq(LAMBDA st, tok :
                         IF st.exc # "" THEN st
                         ELSE With(convert(tok), LAMBDA c :
                              IF c.exc # "" THEN Raise(c.exc)
                              ELSE IF c.val[2] THEN st
                              ELSE Ok(st.val \o c.val[1] \o " ")),
                     Ok(tokens[1] \o " " \o tokens[2] \o " " \o tokens[3] \o " " \o tokens[4]
                        \o " " \o tokens[5] \o " "),
                     SubSeq(tokens, 6, 9))))

\* the last branch of _Fillup, for a record line: the line to append; a line
\* without a record type is matched as the owner '###' with the line as parameter
FillupRecord(line) ==
    With(MatchRecord(line), LAMBDA m :
    With(splitWs(IF m.matched THEN m.partone ELSE "### "), LAMBDA words :
    With(PopIN(words, 1, Len(words)), LAMBDA lp :
        IF lp.exc # "" THEN Raise(lp.exc)
        ELSE With(MatchOwner(lp.val), LAMBDA owner :
             Ok(owner.hostname \o " " \o owner.ttl \o " IN "
                \o (IF m.matched THEN m.record_type ELSE "") \o " "
                \o (IF m.matched THEN m.parameter ELSE line))))))

\* the body of the loop of _Fillup for one line: a record line without a
\* record type is reported in self.__ruleerror
FillupStep(st, line) ==
    IF st.exc # "" THEN st
    ELSE IF Len(strip(line)) = 0 THEN st
    ELSE IF startswith(upper(line), "$ORIGIN") THEN [st EXCEPT !.ret = Append(@, line)]
    ELSE With(upper(line), LAMBDA up :
         With(IF startswith(up, "$TTL") THEN FillupTtl(line)
              ELSE IF startswith(up, "@ SOA") THEN FillupSoa(line)
              ELSE FillupRecord(line), LAMBDA r :
         With(IF ~startswith(up, "$TTL") /\ ~startswith(up, "@ SOA") /\ ~MatchRecord(line).matched
              THEN Append(st.ruleerror, "invalid record type! " \o line)
              ELSE st.ruleerror, LAMBDA ruleerror :
             IF r.exc # "" THEN [st EXCEPT !.exc = r.exc, !.ruleerror = ruleerror]
             ELSE [st EXCEPT !.ret = Append(@, r.val), !.ruleerror = ruleerror])))

\* ParseZoneFile._Fillup: the new self._text and self.__ruleerror
Fillup(text, ruleerror) ==
    With(FoldSeq(FillupStep, [exc |-> "", ret |-> <<>>, ruleerror |-> ruleerror],
                 split(text, "\n")), LAMBDA scan :
        [exc |-> scan.exc, val |-> join("\n", scan.ret), ruleerror |-> scan.ruleerror])

----------------------------------------------------------------------------
(* ParseZoneFile: the rules of validate(). A rule maps the lines of self._text
   and a state [exc, ruleerror] to the state after the rule. *)

Blank == {" ", "\t"}

\* the text kw, compared without case, starts at position i of the line
KeywordAt(line, kw, i) ==
    i >= 1 /\ i + Len(kw) - 1 <= Len(line) /\ upper(SubSeq(line, i, i + Len(kw) - 1)) = kw

\* re.match(r".+?" + before + kw + ".+", line, re.I), where before is one
\* character of the set before
MatchKeyword(line, before, kw) ==
    \E i \in 2..Len(line) :
        Ch(line, i) \in before /\ KeywordAt(line, kw, i + 1) /\ i + Len(kw) < Len(line)

\* self.__ruleerror.append(msg) unless the rule was left by an exception
AddError(st, msg) == IF st.exc # "" THEN st ELSE [st EXCEPT !.ruleerror = Append(@, msg)]

\* one test of a rule: r is the outcome of a check, msg is appended when the
\* check answers False, and an exception of the check leaves the rule
Test(st, r, msg) ==
    IF st.exc # "" THEN st
    ELSE IF r.exc # "" THEN [st EXCEPT !.exc = r.exc]
    ELSE IF r.val THEN st
    ELSE AddError(st, msg)

\* the tests of a rule in their order
Tests(st, tests, msg) == FoldSeq(LAMBDA s, r : Test(s, r, msg), st, tests)

\* linetokens[i] handed to a check, positions counted from 0 as in the source
HostnameAt(linetokens, i) ==
    IF i + 1 > Len(linetokens) THEN Raise("IndexError") ELSE check_hostname(linetokens[i + 1])

NumberAt(linetokens, i) ==
    IF i + 1 > Len(linetokens) THEN Raise("IndexError") ELSE check_number(linetokens[i + 1])

\* the owner test of the record rules: '@' and '_' owners are not checked
OwnerTest(linetokens) ==
    IF Len(linetokens) = 0 THEN Raise("IndexError")
    ELSE IF startswith(linetokens[1], "@") \/ startswith(linetokens[1], "_") THEN Ok(TRUE)
    ELSE check_hostname(linetokens[1])

\* Uint16At with the upper limit 65536
Uint16At_UpperOff(linetokens, i) ==
    Ok(i + 1 <= Len(linetokens) /\ UpTo(int(linetokens[i + 1]), PyInt(65536)))

\* try: value = int(linetokens[i]); 0 <= value <= 65535, except: error
Uint16At(linetokens, i) ==
    Ok(i + 1 <= Len(linetokens) /\ UpTo(int(linetokens[i + 1]), PyInt(65535)))

\* the loop shared by rules 09 to 18: every line that the pattern
\* matches is tokenized and tested
RecordRule(st, lines, before, kw, Checks(_), msg) ==
    FoldSeq(LAMBDA s, line :
                IF s.exc # "" \/ ~MatchKeyword(line, before, kw) THEN s
                ELSE Tests(s, Checks(tokenize_line(line).val), msg \o line),
            st, lines)

\* the end of rules 01 and 02: the directive should have been counted once
CountedOnce(s, msg) ==
    IF s.counter # 1 THEN AddError([exc |-> s.exc, ruleerror |-> s.ruleerror], msg)
    ELSE [exc |-> s.exc, ruleerror |-> s.ruleerror]

\* the body of the loop of _CheckRule_01: $ORIGIN lines are counted up to
\* the first whose domain name is invalid
CheckRule_01Step(s, line) ==
    IF s.exc # "" \/ s.break \/ Len(line) = 0 \/ ~startswith(upper(line), "$ORIGIN") THEN s
    ELSE With(split(line, " "), LAMBDA words :
         With(IF Len(words) = 2 THEN check_hostname(words[2]) ELSE Ok(FALSE), LAMBDA h :
             IF h.exc # "" THEN [s EXCEPT !.exc = h.exc]
             ELSE IF h.val THEN [s EXCEPT !.counter = @ + 1]
             ELSE [s EXCEPT !.counter = @ + 1, !.break = TRUE,
                            !.ruleerror = Append(@, "$origin domain name not valid.")]))

\* _CheckRule_01
CheckRule_01(st, lines) ==
    CountedOnce(FoldSeq(CheckRule_01Step,
                        [exc |-> st.exc, ruleerror |-> st.ruleerror, counter |-> 0, break |-> FALSE],
                        lines),
                "$origin should be present exactly once.")

\* the body of the loop of _CheckRule_02: every $TTL line is counted, and
\* its value is converted and checked
CheckRule_02Step(s, line) ==
    IF s.exc # "" \/ ~startswith(upper(line), "$TTL") THEN s
    ELSE With(split(line, " "), LAMBDA words :
         IF Len(words) # 2
         THEN [s EXCEPT !.counter = @ + 1, !.ruleerror = Append(@, "$ttl not valid.")]
         ELSE With(convert(words[2]), LAMBDA c :
              IF c.exc # "" THEN [s EXCEPT !.counter = @ + 1, !.exc = c.exc]
              ELSE IF c.val[2]
              THEN [s EXCEPT !.counter = @ + 1, !.ruleerror = Append(@, "$ttl value not valid.")]
              ELSE With(check_number(c.val[1]), LAMBDA n :
                   IF n.exc # "" THEN [s EXCEPT !.counter = @ + 1, !.exc = n.exc]
                   ELSE IF ~n.val
                   THEN [s EXCEPT !.counter = @ + 1,
                                  !.ruleerror = Append(@, "$ttl value not valid.")]
                   ELSE [s EXCEPT !.counter = @ + 1])))

\* _CheckRule_02
CheckRule_02(st, lines) ==
    CountedOnce(FoldSeq(CheckRule_02Step,
                        [exc |-> st.exc, ruleerror |-> st.ruleerror, counter |-> 0], lines),
                "$ttl should be present exactly once.")

\* _CheckRule_03
CheckRule_03(st, lines) ==
    LET counter == Cardinality({i \in 1..Len(lines) : startswith(upper(lines[i]), "@ SOA")})
    IN  IF counter # 1 THEN AddError(st, "@ SOA must be present exactly once.") ELSE st

\* _CheckRule_04: re.match(r".+?[ \t](IN NS)[ \t].*", line, re.I)
CheckRule_04(st, lines) ==
    LET hit(line) == \E i \in 2..Len(line) :
                         /\ Ch(line, i) \in Blank
                         /\ KeywordAt(line, "IN NS", i + 1)
                         /\ i + 6 <= Len(line)
                         /\ Ch(line, i + 6) \in Blank
        counter == Cardinality({i \in 1..Len(lines) : hit(lines[i])})
    IN  IF counter < 1 THEN AddError(st, "@ NS must be present once.") ELSE st

\* the group ([0-9]+) of re.match(r".+?[ \t]([0-9]+)[ \t]+IN.+", line, re.I)
\* when position i holds the blank before it, "" when the match fails there
TtlAt(line, i) ==
    LET digits == leadingDigits(SubSeq(line, i + 1, Len(line)))
        after == lstripWs(SubSeq(line, i + 1 + Len(digits), Len(line)))
        blanks == Len(line) - i - Len(digits) - Len(after)
    IN  IF /\ Ch(line, i) \in Blank
           /\ digits # ""
           /\ blanks >= 1
           /\ \A k \in 1..blanks : Ch(line, i + Len(digits) + k) \in Blank
           /\ KeywordAt(after, "IN", 1)
           /\ Len(after) >= 3
        THEN digits ELSE ""

\* the body of the loop of _CheckRule_05: the group of a line that the
\* pattern matches is the one of the leftmost match
CheckRule_05Step(s, line) ==
    With({i \in 2..Len(line) : TtlAt(line, i) # ""}, LAMBDA at :
        IF at = {} THEN s
        ELSE Test(s, check_number(TtlAt(line, CHOOSE i \in at : \A j \in at : i <= j)),
                  "ttl not valid! " \o line))

\* _CheckRule_05
CheckRule_05(st, lines) == FoldSeq(CheckRule_05Step, st, lines)

\* the one-character class [MX|TXT|A|AAAA|HINFO|PTR|SRV|URI] under re.I
Rule06Class == {"M", "X", "|", "T", "A", "H", "I", "N", "F", "O", "P", "R", "S", "V", "U"}

\* re.match(r"[@_](.*) IN [MX|TXT|A|AAAA|HINFO|PTR|SRV|URI] .*", line, re.I)
Rule06Skips(line) ==
    /\ Len(line) >= 7
    /\ Ch(line, 1) \in {"@", "_"}
    /\ \E j \in 2..(Len(line) - 5) :
          /\ KeywordAt(line, " IN ", j)
          /\ upper(Ch(line, j + 4)) \in Rule06Class
          /\ Ch(line, j + 5) = " "

\* re.match(r"[@_](.*?) IN NS .+", line, re.I)
Rule06Counts(line) ==
    /\ Len(line) >= 9
    /\ Ch(line, 1) \in {"@", "_"}
    /\ \E j \in 2..(Len(line) - 7) : KeywordAt(line, " IN NS ", j)

\* the body of the loop of _CheckRule_06: status 0 looks for the @ SOA line,
\* status 1 skips the lines of the first pattern, status 2 counts NS lines
CheckRule_06Step(s, line) ==
    LET soa == KeywordAt(line, "@ SOA ", 1) /\ Len(line) >= 7
        status == IF s.status = 1 /\ ~Rule06Skips(line) THEN 2 ELSE s.status
    IN  IF s.status = 0 THEN (IF soa THEN [s EXCEPT !.status = 1] ELSE s)
        ELSE [s EXCEPT !.status = status,
                       !.counter = IF status = 2 /\ Rule06Counts(line) THEN @ + 1 ELSE @]

CheckRule_06(st, lines) ==
    LET s == FoldSeq(CheckRule_06Step, [status |-> 0, counter |-> 0], lines)
    IN  IF s.counter < 1
        THEN AddError(st, "there is no valid NS record after SOA!") ELSE st

\* _CheckRule_07: the line tested for a missing owner is the CNAME line itself
CheckRule_07(st, lines) ==
    FoldSeq(LAMBDA s, line :
                IF MatchKeyword(line, Blank, "IN CNAME") /\ Ch(line, 1) = "_"
                THEN AddError(s, "cname follower without a hostname! " \o line) ELSE s,
            st, lines)

\* _CheckRule_08: the line tested is the first of the @ SOA lines, or the
\* last line of the text when there is none
CheckRule_08(st, lines) ==
    IF st.exc # "" THEN st
    ELSE
    With({i \in 1..Len(lines) : /\ KeywordAt(lines[i], "@ SOA", 1)
                                /\ Len(lines[i]) >= 7
                                /\ Ch(lines[i], 6) \in Blank}, LAMBDA soa :
    With(IF soa = {} THEN lines[Len(lines)] ELSE lines[CHOOSE i \in soa : \A j \in soa : i <= j],
         LAMBDA line :
    With(tokenize_line(line), LAMBDA linetokens :
        IF linetokens.exc # "" THEN [st EXCEPT !.exc = linetokens.exc]
        ELSE With(linetokens.val, LAMBDA t :
             IF Len(t) # 9 THEN AddError(st, "wrong SOA record! " \o line)
             ELSE FoldSeq(LAMBDA s, i :
                              IF s.exc # "" THEN s
                              ELSE With(convert(t[i]), LAMBDA c :
                                   IF c.exc # "" THEN [s EXCEPT !.exc = c.exc]
                                   ELSE Test(s, check_number(c.val[1]),
                                             "wrong time value in SOA record! " \o line)),
                          Test(Test(Test(Test(Test(st,
                               Ok(t[1] = "@"), "wrong SOA record! " \o line),
                               Ok(t[2] = "SOA"), "wrong SOA record! " \o line),
                               check_hostname(t[3]), "wrong master name in SOA record! " \o line),
                               check_hostname(t[4]),
                               "wrong responsible name in SOA record! " \o line),
                               check_number(t[5]), "wrong serial in SOA record! " \o line),
                          <<6, 7, 8, 9>>)))))

\* _CheckRule_09
CheckRule_09(st, lines) ==
    RecordRule(st, lines, Blank, "IN NS",
               LAMBDA t : <<Ok(Len(t) = 5), OwnerTest(t), NumberAt(t, 1), HostnameAt(t, 4)>>,
               "wrong NS record! ")

\* _CheckRule_10
CheckRule_10(st, lines) ==
    RecordRule(st, lines, Blank, "IN MX",
               LAMBDA t : <<Ok(Len(t) = 6), OwnerTest(t), NumberAt(t, 1), NumberAt(t, 4),
                            HostnameAt(t, 5)>>,
               "wrong MX record! ")

\* _CheckRule_11: the owner is checked without the exemption of '@' and '_'
CheckRule_11(st, lines) ==
    RecordRule(st, lines, Blank, "IN CNAME",
               LAMBDA t : <<Ok(Len(t) = 5), HostnameAt(t, 0), NumberAt(t, 1), HostnameAt(t, 4)>>,
               "wrong CNAME record! ")

\* _CheckRule_12
CheckRule_12(st, lines) ==
    RecordRule(st, lines, Blank, "IN HINFO",
               LAMBDA t : <<Ok(Len(t) = 6), OwnerTest(t), NumberAt(t, 1)>>,
               "wrong HINFO record! ")

\* linetokens[4] handed to __check_ipv4 or __check_ipv6
IpAt(linetokens, Check(_)) ==
    IF Len(linetokens) < 5 THEN Raise("IndexError") ELSE Ok(Check(linetokens[5]))

\* _CheckRule_13: re.match(r".+?( IN A ).+", line, re.I)
CheckRule_13(st, lines) ==
    RecordRule(st, lines, {" "}, "IN A ",
               LAMBDA t : <<Ok(Len(t) = 5), OwnerTest(t), NumberAt(t, 1), IpAt(t, check_ipv4)>>,
               "wrong A record! ")

\* _CheckRule_14
CheckRule_14(st, lines) ==
    RecordRule(st, lines, Blank, "IN AAAA",
               LAMBDA t : <<Ok(Len(t) = 5), OwnerTest(t), NumberAt(t, 1), IpAt(t, check_ipv6)>>,
               "wrong AAAA record! ")

\* _CheckRule_15
CheckRule_15(st, lines) ==
    RecordRule(st, lines, Blank, "IN PTR",
               LAMBDA t : <<Ok(Len(t) = 5), OwnerTest(t), NumberAt(t, 1), HostnameAt(t, 4)>>,
               "wrong PTR record! ")

\* _CheckRule_16
CheckRule_16(st, lines) ==
    RecordRule(st, lines, Blank, "IN TXT",
               LAMBDA t : <<Ok(Len(t) = 5), OwnerTest(t), NumberAt(t, 1)>>,
               "wrong TXT record! ")

\* _CheckRule_17
CheckRule_17(st, lines) ==
    RecordRule(st, lines, Blank, "IN SRV",
               LAMBDA t : <<Ok(Len(t) = 8), OwnerTest(t), NumberAt(t, 1), Uint16At(t, 4),
                            Uint16At(t, 5), Uint16At(t, 6), HostnameAt(t, 7)>>,
               "wrong SRV record! ")

\* _CheckRule_18: the length, owner and ttl tests report a URI record, the
\* priority and weight tests report an SRV record
CheckRule_18(st, lines) ==
    FoldSeq(LAMBDA s, line :
                IF s.exc # "" \/ ~MatchKeyword(line, Blank, "IN URI") THEN s
                ELSE With(tokenize_line(line).val, LAMBDA t :
                     Tests(Tests(s, <<Ok(Len(t) = 7), OwnerTest(t), NumberAt(t, 1)>>,
                                 "wrong URI record! " \o line),
                           <<Uint16At(t, 4), Uint16At(t, 5)>>, "wrong SRV record! " \o line)),
            st, lines)

\* the rules of validate() in the order of their calls
CheckRules(st, lines) ==
    FoldSeq(LAMBDA s, k :
                CASE k = 1 -> CheckRule_01(s, lines)
                  [] k = 2 -> CheckRule_02(s, lines)
                  [] k = 3 -> CheckRule_03(s, lines)
                  [] k = 4 -> CheckRule_04(s, lines)
                  [] k = 5 -> CheckRule_05(s, lines)
                  [] k = 6 -> CheckRule_06(s, lines)
                  [] k = 7 -> CheckRule_07(s, lines)
                  [] k = 8 -> CheckRule_08(s, lines)
                  [] k = 9 -> CheckRule_09(s, lines)
                  [] k = 10 -> CheckRule_10(s, lines)
                  [] k = 11 -> CheckRule_11(s, lines)
                  [] k = 12 -> CheckRule_12(s, lines)
                  [] k = 13 -> CheckRule_13(s, lines)
                  [] k = 14 -> CheckRule_14(s, lines)
                  [] k = 15 -> CheckRule_15(s, lines)
                  [] k = 16 -> CheckRule_16(s, lines)
                  [] k = 17 -> CheckRule_17(s, lines)
                  [] k = 18 -> CheckRule_18(s, lines),
            st, [k \in 1..18 |-> k])

\* ParseZoneFile.validate() on an object built from the text input whose
\* self.__ruleerror is ruleerror: the exception that leaves the call, or the
\* pair it returns, with the new self._text and self.__ruleerror
validate(input, ruleerror) ==
    With(Levelout(ShakeoffComments(input)), LAMBDA text :
    With(Fillup(text, ruleerror), LAMBDA filled :
        IF filled.exc # ""
        THEN [exc |-> filled.exc, text |-> text, ruleerror |-> filled.ruleerror, ok |-> FALSE,
              errors |-> <<>>]
        ELSE With(CheckRules([exc |-> "", ruleerror |-> filled.ruleerror],
                             split(filled.val, "\n")), LAMBDA r :
             [exc |-> r.exc, text |-> filled.val, ruleerror |-> r.ruleerror,
              ok |-> r.exc = "" /\ Len(r.ruleerror) = 0,
              errors |-> IF r.exc = "" THEN r.ruleerror ELSE <<>>])))

----------------------------------------------------------------------------
(* class GenerateZoneFile, on the dict that json.loads gives for zonejson.
   The dicts rendered are those that ParseZoneFile builds: the value of a key
   has the type that _ckeck_records gives it, an int for ttl and for the int
   fields, a str otherwise. *)

DEFAULT_TEMPLATE ==
    "\n{$origin}\n{$ttl}\n\n{soa}\n\n{ns}\n\n{mx}\n\n{a}\n\n{aaaa}\n\n{cname}\n\n{hinfo}\n\n{ptr}\n\n{txt}\n\n{srv}\n\n{uri}\n"

\* the keys whose values are ints
IntFields ==
    {"ttl", "$ttl"} \cup
    UNION {{args_and_types(t)[i][1] :
               i \in {j \in 1..Len(args_and_types(t)) : args_and_types(t)[j][2] = "int"}} :
           t \in SUPPORTED_RECORDS \ {"$ORIGIN", "$TTL", "TXT"}}

\* str(value) for the value of the key
StrOf(key, value) == IF key \in IntFields THEN str(value) ELSE value

RECURSIVE replaceFrom(_, _, _, _)
\* the rest of s.replace(old, new) from position from on
replaceFrom(s, old, new, from) ==
    LET at == {i \in from..(Len(s) - Len(old) + 1) : SubSeq(s, i, i + Len(old) - 1) = old}
        i == CHOOSE k \in at : \A j \in at : k <= j
    IN  IF at = {} THEN SubSeq(s, from, Len(s))
        ELSE SubSeq(s, from, i - 1) \o new \o replaceFrom(s, old, new, i + Len(old))

\* str.replace(old, new) for a non-empty old
replace(s, old, new) == replaceFrom(s, old, new, 1)

\* GenerateZoneFile._Make_origin
Make_origin(zonefile, zonedict) ==
    replace(zonefile, "{$origin}",
            IF "$origin" \in DOMAIN zonedict THEN "$ORIGIN " \o zonedict["$origin"] ELSE "")

\* GenerateZoneFile._Make_ttl
Make_ttl(zonefile, zonedict) ==
    replace(zonefile, "{$ttl}",
            IF "$ttl" \in DOMAIN zonedict THEN "$TTL " \o StrOf("$ttl", zonedict["$ttl"]) ELSE "")

\* GenerateZoneFile._Make_soa: a dict without 'soa' raises; a list of one or
\* more SOA records sets rowdata to None, so that {soa} is cleared; the branch
\* that renders the record is left for the empty list, where rowdata[0] raises
Make_soa(zonefile, zonedict) ==
    IF "soa" \notin DOMAIN zonedict THEN Raise("KeyError")
    ELSE IF Len(zonedict["soa"]) >= 1 THEN Ok(replace(zonefile, "{soa}", ""))
    ELSE Raise("IndexError")

\* the body of the loop of __make_rr for one record: record_data holds the
\* name, the ttl when there is one, the type and the values of the keys; an
\* HINFO record without ttl replaces what was collected, every other record is
\* added as a line
MakeRrStep(st, row, record_type, record_keys) ==
    IF st.exc # "" THEN st
    ELSE IF \E k \in 1..Len(record_keys) : record_keys[k] \notin DOMAIN row
    THEN Raise("KeyError")
    ELSE With(<<IF "name" \in DOMAIN row THEN row["name"] ELSE "@">>
                  \o (IF "ttl" \in DOMAIN row THEN <<StrOf("ttl", row["ttl"])>> ELSE <<>>)
                  \o <<record_type>>
                  \o [k \in 1..Len(record_keys) |-> StrOf(record_keys[k], row[record_keys[k]])],
              LAMBDA record_data :
         IF record_data[2] = "HINFO"
         THEN Ok(record_data[1] \o " \"" \o record_data[2] \o "\" \"" \o record_data[3]
                     \o "\" \"" \o record_data[4] \o "\"")
         ELSE Ok(st.val \o join(" ", record_data) \o "\n"))

\* GenerateZoneFile.__make_rr: rowdata is <<>> for None and <<list>> for a list
make_rr(zonefile, rowdata, record_type, record_keys, field) ==
    With(IF rowdata = <<>> THEN Ok("")
         ELSE FoldSeq(LAMBDA st, row : MakeRrStep(st, row, record_type, record_keys),
                      Ok(""), rowdata[1]), LAMBDA record :
        IF record.exc # "" THEN record ELSE Ok(replace(zonefile, field, record.val)))

\* try: rowdata = self.__zonedict[key], except: rowdata = None
RowData(zonedict, key) == IF key \in DOMAIN zonedict THEN <<zonedict[key]>> ELSE <<>>

\* GenerateZoneFile._Make_ns
Make_ns(zonefile, zonedict) ==
    make_rr(zonefile, RowData(zonedict, "ns"), "NS", <<"host">>, "{ns}")

\* GenerateZoneFile._Make_a
Make_a(zonefile, zonedict) ==
    make_rr(zonefile, RowData(zonedict, "a"), "A", <<"ip">>, "{a}")

\* GenerateZoneFile._Make_aaaa
Make_aaaa(zonefile, zonedict) ==
    make_rr(zonefile, RowData(zonedict, "aaaa"), "AAAA", <<"ip">>, "{aaaa}")

\* GenerateZoneFile._Make_cname
Make_cname(zonefile, zonedict) ==
    make_rr(zonefile, RowData(zonedict, "cname"), "CNAME", <<"alias">>, "{cname}")

\* GenerateZoneFile._Make_hinfo
Make_hinfo(zonefile, zonedict) ==
    make_rr(zonefile, RowData(zonedict, "hinfo"), "HINFO", <<"cpu", "system">>, "{hinfo}")

\* GenerateZoneFile._Make_mx
Make_mx(zonefile, zonedict) ==
    make_rr(zonefile, RowData(zonedict, "mx"), "MX", <<"preference", "host">>, "{mx}")

\* GenerateZoneFile._Make_ptr
Make_ptr(zonefile, zonedict) ==
    make_rr(zonefile, RowData(zonedict, "ptr"), "PTR", <<"host">>, "{ptr}")

\* the quoting of one TXT record in _Make_txt: the value of 'txt' is a list of
\* strings or one string, each put between double quotes after
\* entry.replace(';', '\\;')
QuoteTxt(datum) ==
    LET Quoted(entry) == "\"" \o replaceCh(entry, ";", "\\;") \o "\""
    IN  [datum EXCEPT !["txt"] =
            IF "list" \in DOMAIN @ THEN join(" ", [i \in 1..Len(@.list) |-> Quoted(@.list[i])])
            ELSE Quoted(@.str)]

\* GenerateZoneFile._Make_txt: rowdata_dup holds the records with their
\* strings quoted; a record that has no 'txt' raises
Make_txt(zonefile, zonedict) ==
    With(RowData(zonedict, "txt"), LAMBDA rowdata :
        IF rowdata # <<>> /\ \E i \in 1..Len(rowdata[1]) : "txt" \notin DOMAIN rowdata[1][i]
        THEN Raise("KeyError")
        ELSE make_rr(zonefile,
                     IF rowdata = <<>> THEN <<>>
                     ELSE <<[i \in 1..Len(rowdata[1]) |-> QuoteTxt(rowdata[1][i])]>>,
                     "TXT", <<"txt">>, "{txt}"))

\* GenerateZoneFile._Make_srv
Make_srv(zonefile, zonedict) ==
    make_rr(zonefile, RowData(zonedict, "srv"), "SRV", <<"priority", "weight", "port", "target">>,
            "{srv}")

\* GenerateZoneFile._Make_uri: the loop that quotes the targets reads the name
\* field, which the method does not define, inside the try; the bare except
\* then sets rowdata_dup to None, so only an empty list is handed on
Make_uri(zonefile, zonedict) ==
    With(RowData(zonedict, "uri"), LAMBDA rowdata :
        make_rr(zonefile, IF rowdata # <<>> /\ Len(rowdata[1]) = 0 THEN rowdata ELSE <<>>,
                "URI", <<"priority", "weight", "target">>, "{uri}"))

\* call number k of the calls _Make_ns .. _Make_uri of the constructor, in
\* their order
MakeStep(st, zonedict, k) ==
    IF st.exc # "" THEN st
    ELSE CASE k = 1 -> Make_ns(st.val, zonedict)
           [] k = 2 -> Make_a(st.val, zonedict)
           [] k = 3 -> Make_aaaa(st.val, zonedict)
           [] k = 4 -> Make_cname(st.val, zonedict)
           [] k = 5 -> Make_hinfo(st.val, zonedict)
           [] k = 6 -> Make_mx(st.val, zonedict)
           [] k = 7 -> Make_ptr(st.val, zonedict)
           [] k = 8 -> Make_txt(st.val, zonedict)
           [] k = 9 -> Make_srv(st.val, zonedict)
           [] k = 10 -> Make_uri(st.val, zonedict)

\* the end of the constructor: blank lines are removed, the others stripped
RemoveEmptyLines(zonefile) ==
    LET lines == SelectSeq(split(zonefile, "\n"), LAMBDA line : strip(line) # "")
    IN  concat([i \in 1..Len(lines) |-> strip(lines[i]) \o "\n"]) \o "\n"

\* GenerateZoneFile(zonejson) with origin, ttl and template left at None, for
\* zonedict = json.loads(zonejson): the exception that leaves the constructor,
\* or the text that showtext() returns
GenerateZoneFile(zonedict) ==
    With(Make_soa(Make_ttl(Make_origin(DEFAULT_TEMPLATE, zonedict), zonedict), zonedict),
         LAMBDA soa :
        IF soa.exc # "" THEN Raise(soa.exc)
        ELSE With(FoldSeq(LAMBDA st, k : MakeStep(st, zonedict, k), Ok(soa.val),
                          [k \in 1..10 |-> k]), LAMBDA made :
             IF made.exc # "" THEN Raise(made.exc) ELSE Ok(RemoveEmptyLines(made.val))))

----------------------------------------------------------------------------
(* Specification SpecTime: one call of ConvertTime.convert on a bounded text *)

TimeAlphabet == {"0", "1", "5", "9", "H", "h", "M", "W", "X", "a", ".", " ", "-"}

RECURSIVE TextsUpTo(_, _)
\* all texts of length at most n over the alphabet A
TextsUpTo(A, n) ==
    IF n = 0 THEN {""}
    ELSE LET shorter == TextsUpTo(A, n - 1)
         IN  shorter \cup {s \o c : s \in shorter, c \in A}

\* literals at the edges of the range [900, 2^31 - 1] and the spec's examples
TimePool == {"1H", "1D", "5X", "abH", "1.5H", "900", "899", "15M", "14M", "3600", "86400",
             "604800", "2147483647", "2147483648", "3000000000", "35791394M", "35791395M",
             "3550W", "3551W", "24855D", "24856D", "596523H", "596524H", "1000 ", "0900",
             "2147483647S", "2147483648s", "900s", "1w", "1d", "0"}

TimeTexts == TextsUpTo(TimeAlphabet, MaxTimeLen) \cup TimePool

NoTimeOut == [exc |-> "", val |-> <<"", FALSE>>]

TimeReady ==
    /\ timeIn \in TimeTexts
    /\ timeOut = NoTimeOut
    /\ timePc = "ready"

TimeIdle ==
    /\ timeIn = ""
    /\ timeOut = NoTimeOut
    /\ timePc = "off"

NoTokOut == [exc |-> "", val |-> <<>>]

\* the attributes of a ParseZoneFile object before the passes of the constructor
NoParser == [text |-> "", lasthost |-> "", current_origin |-> "", zonedict |-> EmptyDict,
             ruleerror |-> <<>>]

NoResult == [ok |-> FALSE, errors |-> <<>>]

NoReparsed == [exc |-> "", zonedict |-> EmptyDict]

TokIdle ==
    /\ tokIn = ""
    /\ tokOut = NoTokOut
    /\ tokPc = "off"
    /\ tokBack = NoTokOut

NoCallOut == [exc |-> "", val |-> ""]

\* no method is called on its own
CallIdle ==
    /\ callFn = ""
    /\ callArg = ""
    /\ callOut = NoCallOut
    /\ callPc = "off"

\* the outcome of a call as it is kept: no value beside an exception
Outcome(r, none) == IF r.exc = "" THEN r ELSE [exc |-> r.exc, val |-> none]

\* ConvertTime().convert(timeIn)
Convert ==
    /\ timePc = "ready"
    /\ timeOut' = Outcome(convert(timeIn), <<"", FALSE>>)
    /\ timePc' = "done"
    /\ UNCHANGED <<timeIn, tokVars, zoneVars, callVars>>

\* the zone objects are not in use
ZoneIdle ==
    /\ zoneIn = ""
    /\ pc = "off"
    /\ parser = NoParser
    /\ exc = ""
    /\ calls = 0
    /\ result = NoResult
    /\ zoneOut = ""
    /\ reparsed = NoReparsed

TimeNext == Convert

TimeInit == TimeReady /\ TokIdle /\ ZoneIdle /\ CallIdle

SpecTime == TimeInit /\ [][TimeNext]_vars

----------------------------------------------------------------------------
(* Claims about ConvertTime.convert, checked under SpecTime *)

\* a text made of decimal digits, optionally followed by one character that is not a digit
IsTimeLiteral(t) ==
    \/ IsDigits(t)
    \/ Len(t) >= 2 /\ IsDigits(SubSeq(t, 1, Len(t) - 1)) /\ Ch(t, Len(t)) \notin DigitChars

TimeDigits(t) == IF IsDigits(t) THEN t ELSE SubSeq(t, 1, Len(t) - 1)

TimeSuffix(t) == IF IsDigits(t) THEN "" ELSE Ch(t, Len(t))

\* the multiplier of a suffix, 0 for a character that is no unit
RefMultiplier(c) ==
    CASE c \in {"", "S", "s"} -> 1
      [] c \in {"M", "m"} -> 60
      [] c \in {"H", "h"} -> 3600
      [] c \in {"D", "d"} -> 86400
      [] c \in {"W", "w"} -> 604800
      [] OTHER -> 0

\* the reference result for n = the digits' value and the multiplier m
RefResult(digits, m) ==
    LET d == dropZeros(digits)
        small == Len(d) <= 9 \/ (Len(d) = 10 /\ ~MagLess("2147483647", d))
        fits == m > 0 /\ small /\ NatOfDigits(d) <= MaxNat \div m
    IN  IF fits /\ NatOfDigits(d) * m >= 900
        THEN <<ToString(NatOfDigits(d) * m), FALSE>>
        ELSE <<"86400", TRUE>>

\* C6 as stated: convert agrees with the reference function on every text of
\* decimal digits optionally followed by one suffix character, where every
\* suffix character other than S, M, H, D, W (in either case) is an error.
C6_AnySuffix ==
    (timePc = "done" /\ IsTimeLiteral(timeIn))
        => timeOut = Ok(RefResult(TimeDigits(timeIn), RefMultiplier(TimeSuffix(timeIn))))

\* C6 amended: as C6, except that a whitespace suffix counts as no suffix
\* (int() ignores it): convert returns (n*m, false) when 900 <= n*m <= 2^31 - 1
\* and ("86400", true) otherwise, for m = 1 with no suffix, a whitespace suffix
\* or S, and M = 60, H = 3600, D = 86400, W = 604800.
C6_ConvertMatchesReference ==
    (timePc = "done" /\ IsTimeLiteral(timeIn))
        => timeOut = Ok(RefResult(TimeDigits(timeIn),
                                  IF isspace(TimeSuffix(timeIn)) THEN 1
                                  ELSE RefMultiplier(TimeSuffix(timeIn))))

\* the boundary 15M = 900 is converted and accepted
C6_Witness == timePc = "done" /\ timeIn = "15M" /\ timeOut = Ok(<<"900", FALSE>>)

\* C7: convert never raises: every call returns a (value, error) pair.
C7_NeverRaises == timePc = "done" => timeOut.exc = ""

----------------------------------------------------------------------------
(* Specification SpecTok: one call of _tokenize_line on a bounded line *)

TokAlphabet == {"a", "b", " ", "\t", ";", "\"", "\\"}

TokPool == {"a \"b c\" d;comment", "a ;comment", "a;comment", "a\\;b ;c", "\"a;b\" c", " a ;c"}

TokLines == TextsUpTo(TokAlphabet, MaxTokLen) \cup TokPool

TokReady ==
    /\ tokIn \in TokLines
    /\ tokOut = NoTokOut
    /\ tokPc = "ready"
    /\ tokBack = NoTokOut

\* parser._tokenize_line(tokIn)
Tokenize ==
    /\ tokPc = "ready"
    /\ tokOut' = Outcome(tokenize_line(tokIn), <<>>)
    /\ tokPc' = "done"
    /\ UNCHANGED <<tokIn, tokBack, timeVars, zoneVars, callVars>>

\* parser._tokenize_line(parser._serialize(tokOut)), the two calls that
\* _ShakeoffComments makes on a line and a later pass makes on its result
Retokenize ==
    /\ tokPc = "done"
    /\ tokOut.exc = ""
    /\ tokBack' = Outcome(tokenize_line(serialize(tokOut.val)), <<>>)
    /\ tokPc' = "back"
    /\ UNCHANGED <<tokIn, tokOut, timeVars, zoneVars, callVars>>

TokNext == Tokenize \/ Retokenize

TokInit == TokReady /\ TimeIdle /\ ZoneIdle /\ CallIdle

SpecTok == TokInit /\ [][TokNext]_vars

----------------------------------------------------------------------------
(* Claims about _tokenize_line, checked under SpecTok *)

RECURSIVE CommentScan(_, _, _, _)
\* the position at or after i of the first ";" of the line that is neither
\* inside double quotes nor preceded by a backslash, 0 when there is none
CommentScan(line, i, escaped, quoted) ==
    IF i > Len(line) THEN 0
    ELSE IF Ch(line, i) = ";" /\ ~escaped /\ ~quoted THEN i
    ELSE IF Ch(line, i) = "\\" /\ ~escaped THEN CommentScan(line, i + 1, TRUE, quoted)
    ELSE IF Ch(line, i) = "\"" /\ ~escaped THEN CommentScan(line, i + 1, FALSE, ~quoted)
    ELSE CommentScan(line, i + 1, FALSE, quoted)

CommentPos(line) == CommentScan(line, 1, FALSE, FALSE)

\* the tokens of the text that precedes position k of the line
TokensBefore(line, k) ==
    IF k = 1 THEN <<>> ELSE tokenize_line(SubSeq(line, 1, k - 1)).val

\* C10: the tokens of a line that holds a comment are exactly the tokens of
\* the text that precedes the first ";" that is neither quoted nor escaped:
\* nothing of the comment and no token for the ";" itself is in the result.
C10_CommentIsCut ==
    (tokPc = "done" /\ CommentPos(tokIn) > 0)
        => tokOut = Ok(TokensBefore(tokIn, CommentPos(tokIn)))

\* C11: for every non-empty line, tokenizing the serialized tokens of the line
\* gives the tokens of the line again, whatever the tokens hold (a space, a
\* tab, a ";", a double quote) and also when a token is empty.
C11_SerializeInverse ==
    (tokPc = "back" /\ tokIn # "") => tokBack = tokOut

----------------------------------------------------------------------------
(* Specification SpecZone: a zone text is parsed by the constructor of
   ParseZoneFile; the object is validated, its dict is rendered by
   GenerateZoneFile and the rendered text is parsed again *)

\* the well-formed zone text of the end-to-end example
E2EText ==
    "$ORIGIN example.com.\n$TTL 1D\n@ IN SOA ns1.example.com. admin.example.com. ( 2024010100 3600 900 604800 86400 )\n@ IN NS ns1.example.com.\nwww IN A 192.0.2.1"

\* the same zone with the SOA record on one line and without its class
NormalText ==
    "$ORIGIN example.com.\n$TTL 1D\n@ SOA ns1.example.com. admin.example.com. 2024010100 3600 900 604800 86400\n@ IN NS ns1.example.com.\nwww IN A 192.0.2.1"

\* an owner line, an optional line in between, and a line that starts with a blank
OwnerLines == {"www 300 IN A 1.2.3.4", "www IN A 1.2.3.4"}

BetweenLines == {"", "; c\n", " ; c\n", "$TTL 1D\n", "x IN FOO y\n"}

BlankOwnerLines == {" 300 IN A 1.2.3.5", " IN A 1.2.3.5"}

InheritTexts ==
    {first \o "\n" \o between \o blank :
        first \in OwnerLines, between \in BetweenLines, blank \in BlankOwnerLines}

\* texts with malformed content
MalformedTexts ==
    {"", "   \n", "$TTL", "@ SOA ns1.a. adm.a. 7 1H", "www IN 300 A 1.2.3.4", "www IN FOO bar",
     "s IN SRV x 2 3 t.a.", "m IN MX 10", "s IN SRV 1 2", "u IN URI 1",
     "www 3000000000 IN A 1.2.3.4", "www -5 IN A 1.2.3.4", "$TTL abH",
     "@ SOA ns1.a. adm.a. 3000000000 1H 900 1W 1D", "@ SOA ns1.a. adm.a. 7 1H 900 1W 1D extra",
     "$TTL 1D\nm IN MX 10\nwww IN A 1.2.3.4", "www IN A 1.2.3.4\nfoo\n IN A 1.2.3.5"}

\* zones with one record of each type
RecordTexts ==
    {NormalText \o "\n" \o line :
        line \in {"m IN MX 10 mail.example.com.", "t IN TXT \"hello world\"", "t 900 IN TXT a b",
                  "c IN CNAME www", "x IN AAAA 2001:db8::1", "p IN PTR host.example.com.",
                  "s IN SRV 1 2 3 t.example.com.", "u IN URI 1 2 \"http://a/\"",
                  "h IN HINFO PC Linux", "www 3600 IN A 192.0.2.2"}}

\* the values of the $ORIGIN directives around a PTR line
OriginsBefore == {<<>>, <<"a.">>, <<"a.", "b.">>}

OriginsAfter == {<<>>, <<"c.">>}

PtrLines == {"p IN PTR host.example.com.", "12 900 IN PTR h.example.com."}

\* a PTR line with $ORIGIN directives before it and after it
PtrText(before, line, after) ==
    join("\n", [i \in 1..Len(before) |-> "$ORIGIN " \o before[i]] \o <<line>>
                   \o [i \in 1..Len(after) |-> "$ORIGIN " \o after[i]])

PtrTexts ==
    {PtrText(before, line, after) :
        before \in OriginsBefore, line \in PtrLines, after \in OriginsAfter}

\* one-line texts of the types with integer fields: the text, the key of its
\* type, its integer fields, and whether each of them is an integer literal
IntFieldCases ==
    {<<"@ SOA ns1.a. adm.a. 7 1H 900 1W 1D", "soa", <<"serial">>, TRUE>>,
     <<"@ SOA ns1.a. adm.a. x 1H 900 1W 1D", "soa", <<"serial">>, FALSE>>,
     <<"m IN MX 10 mail.a.", "mx", <<"preference">>, TRUE>>,
     <<"m IN MX abc mail.a.", "mx", <<"preference">>, FALSE>>,
     <<"s IN SRV 1 2 3 t.a.", "srv", <<"priority", "weight", "port">>, TRUE>>,
     <<"s IN SRV x 2 3 t.a.", "srv", <<"priority", "weight", "port">>, FALSE>>,
     <<"s IN SRV 1 x 3 t.a.", "srv", <<"priority", "weight", "port">>, FALSE>>,
     <<"s IN SRV 1 2 x t.a.", "srv", <<"priority", "weight", "port">>, FALSE>>,
     <<"u IN URI 1 2 \"http://a/\"", "uri", <<"priority", "weight">>, TRUE>>,
     <<"u IN URI x 2 \"http://a/\"", "uri", <<"priority", "weight">>, FALSE>>,
     <<"u IN URI 1 y \"http://a/\"", "uri", <<"priority", "weight">>, FALSE>>}

IntFieldTexts == {case[1] : case \in IntFieldCases}

\* texts with $TTL directives in small letters, with a comment, with more
\* fields, and with lines whose first word only begins with $TTL
TtlTexts ==
    {"$ttl 1d\n@ IN NS ns1.a.", "$TTL 300 ; c", "$TTL 1D 5", "$TTLX 900", "$TTL 1D\n$TTLX 900",
     "$TTL 1D\n$ttl 2D\n$TTL 300", "$TTLX 900\n$TTLY 900"}

\* values of a 16-bit field at and beyond the limits of 0..65535
Uint16Values == {"0", "65535", "65536", "-1"}

OutOfRange(value) == IF value \in {"65536", "70000", "-1"} THEN 1 ELSE 0

\* SRV and URI lines: the line of the input, the line as _Fillup rewrites it,
\* and the number of its fields outside 0..65535
SrvUriCases ==
    {[line |-> "s IN SRV " \o p \o " " \o w \o " " \o o \o " t.example.com.",
      filled |-> "s 0 IN SRV " \o p \o " " \o w \o " " \o o \o " t.example.com.",
      k |-> OutOfRange(p) + OutOfRange(w) + OutOfRange(o)] :
        p \in Uint16Values, w \in {"2", "70000"}, o \in {"65535", "65536"}}
    \cup
    {[line |-> "u IN URI " \o p \o " " \o w \o " \"http://a/\"",
      filled |-> "u 0 IN URI " \o p \o " " \o w \o " http://a/",
      k |-> OutOfRange(p) + OutOfRange(w)] :
        p \in Uint16Values, w \in {"0", "-1"}}
    \cup
    {[line |-> "srv 900 IN SRV 70000 2 3 t.example.com.",
      filled |-> "v 900 IN SRV 70000 2 3 t.example.com.", k |-> 1]}

SrvUriText(case) == NormalText \o "\n" \o case.line

SrvUriTexts == {SrvUriText(case) : case \in SrvUriCases}

\* zones that end with a CNAME line and the line after it: the lines, and
\* whether the line that follows the CNAME line has no owner of its own
CnameCases ==
    {[lines |-> "c IN CNAME www\n IN A 1.2.3.5", followed |-> TRUE],
     [lines |-> "c IN CNAME www\n 300 IN A 1.2.3.5", followed |-> TRUE],
     [lines |-> "c IN CNAME www\nd IN A 1.2.3.5", followed |-> FALSE],
     [lines |-> "c IN CNAME www", followed |-> FALSE],
     [lines |-> "d IN A 1.2.3.5\n IN CNAME www\ne IN A 1.2.3.6", followed |-> FALSE]}

CnameText(case) == NormalText \o "\n" \o case.lines

CnameTexts == {CnameText(case) : case \in CnameCases}

\* zones by the place of their NS lines: the lines after $ORIGIN and $TTL,
\* whether an NS line of the apex (owner @, or no owner) comes after the
\* first @ SOA line, and whether an NS line that begins with @ or _ does
ZoneSoaLine == "@ SOA ns1.example.com. admin.example.com. 2024010100 3600 900 604800 86400"

ApexNsLine == "@ IN NS ns1.example.com."

NsCases ==
    {[lines |-> <<ZoneSoaLine, "www IN A 192.0.2.1", ApexNsLine>>,
      apex |-> TRUE, counted |-> TRUE],
     [lines |-> <<ZoneSoaLine, "@ IN A 192.0.2.1", ApexNsLine>>,
      apex |-> TRUE, counted |-> TRUE],
     [lines |-> <<ZoneSoaLine, " IN NS ns1.example.com.", "www IN A 192.0.2.1">>,
      apex |-> TRUE, counted |-> TRUE],
     [lines |-> <<ApexNsLine, ZoneSoaLine, "@ 300 IN NS ns2.example.com.">>,
      apex |-> TRUE, counted |-> TRUE],
     [lines |-> <<ApexNsLine, "www IN A 192.0.2.1">>,
      apex |-> FALSE, counted |-> FALSE],
     [lines |-> <<ApexNsLine, ZoneSoaLine, "www IN A 192.0.2.1">>,
      apex |-> FALSE, counted |-> FALSE],
     [lines |-> <<ZoneSoaLine, "www IN NS ns1.example.com.">>,
      apex |-> FALSE, counted |-> FALSE],
     [lines |-> <<ZoneSoaLine, "example.com. IN NS ns1.example.com.">>,
      apex |-> FALSE, counted |-> FALSE],
     [lines |-> <<ZoneSoaLine, "_sub IN NS ns1.example.com.">>,
      apex |-> FALSE, counted |-> TRUE]}

NsText(case) == join("\n", <<"$ORIGIN example.com.", "$TTL 1D">> \o case.lines)

NsTexts == {NsText(case) : case \in NsCases}

\* the lines from which short zone texts are composed
LinePool ==
    {"$ORIGIN a.", "$TTL 300", "@ SOA ns1.a. adm.a. 7 1H 900 1W 1D", "@ IN NS ns1.a.",
     "www 900 IN A 1.2.3.4", " IN A 1.2.3.5", "; c"}

RECURSIVE LinesUpTo(_)
\* the texts of at most n lines of the pool
LinesUpTo(n) ==
    IF n = 0 THEN {""}
    ELSE LET shorter == LinesUpTo(n - 1)
         IN  shorter \cup LinePool \cup {t \o "\n" \o line : t \in shorter \ {""}, line \in LinePool}

ZoneTexts ==
    {E2EText, NormalText} \cup InheritTexts \cup MalformedTexts \cup RecordTexts
        \cup PtrTexts \cup IntFieldTexts \cup TtlTexts \cup SrvUriTexts
        \cup CnameTexts \cup NsTexts
        \cup LinesUpTo(MaxZoneLines)

ZoneReady ==
    /\ zoneIn \in ZoneTexts
    /\ pc = "new"
    /\ parser = NoParser
    /\ exc = ""
    /\ calls = 0
    /\ result = NoResult
    /\ zoneOut = ""
    /\ reparsed = NoReparsed

\* parser = ParseZoneFile(zoneIn): the constructor returns the object or raises
Construct ==
    /\ pc = "new"
    /\ With(construct(zoneIn), LAMBDA c :
           /\ pc' = IF c.exc = "" THEN "parsed" ELSE "raised"
           /\ exc' = c.exc
           /\ parser' = IF c.exc # "" THEN NoParser
                        ELSE [text |-> c.text, lasthost |-> c.lasthost,
                              current_origin |-> c.current_origin, zonedict |-> c.zonedict,
                              ruleerror |-> <<>>])
    /\ UNCHANGED <<zoneIn, calls, result, zoneOut, reparsed, timeVars, tokVars, callVars>>

\* parser.validate(): an exception leaves the attributes as they were when it
\* was raised
Validate ==
    /\ pc = "parsed"
    /\ calls < MaxValidate
    /\ With(validate(zoneIn, parser.ruleerror), LAMBDA v :
           /\ parser' = [parser EXCEPT !.text = v.text, !.ruleerror = v.ruleerror]
           /\ exc' = v.exc
           /\ result' = IF v.exc = "" THEN [ok |-> v.ok, errors |-> v.errors] ELSE NoResult)
    /\ calls' = calls + 1
    /\ UNCHANGED <<zoneIn, pc, zoneOut, reparsed, timeVars, tokVars, callVars>>

\* GenerateZoneFile(parser.showjson()).showtext(): showjson() is the JSON text
\* of self._zonedict, which the generator decodes again
Render ==
    /\ pc = "parsed"
    /\ With(GenerateZoneFile(parser.zonedict), LAMBDA g :
           /\ exc' = g.exc
           /\ zoneOut' = IF g.exc = "" THEN g.val ELSE "")
    /\ pc' = "rendered"
    /\ UNCHANGED <<zoneIn, parser, calls, result, reparsed, timeVars, tokVars, callVars>>

\* ParseZoneFile(zoneOut).getdict()
Reparse ==
    /\ pc = "rendered"
    /\ exc = ""
    /\ With(construct(zoneOut), LAMBDA c : reparsed' = [exc |-> c.exc, zonedict |-> c.zonedict])
    /\ pc' = "reparsed"
    /\ UNCHANGED <<zoneIn, parser, exc, calls, result, zoneOut, timeVars, tokVars, callVars>>

\* the record types that a caller looks up in the document
LookupKeys == {"mx", "a"}

\* parser.getdict()[key]: getdict returns self._zonedict itself, which is a
\* defaultdict(list), so the lookup of a key that is missing stores an empty
\* list under it
Lookup ==
    /\ pc = "parsed"
    /\ \E key \in LookupKeys :
           parser' = [parser EXCEPT !.zonedict =
                         IF key \in DOMAIN @ THEN @ ELSE SetItem(@, key, <<>>)]
    /\ UNCHANGED <<zoneIn, pc, exc, calls, result, zoneOut, reparsed, timeVars, tokVars, callVars>>

ZoneNext == Construct \/ Validate \/ Render \/ Reparse \/ Lookup

ZoneInit == ZoneReady /\ TimeIdle /\ TokIdle /\ CallIdle

SpecZone == ZoneInit /\ [][ZoneNext]_vars

----------------------------------------------------------------------------
(* Claims about the parser, the validator and the generator, checked under SpecZone *)

\* the records of a type in a zone dict, none when the key is absent
Records(zonedict, key) == IF key \in DOMAIN zonedict THEN zonedict[key] ELSE <<>>

\* the keys under which _parse_line stores records
RecordKeys == {"soa", "ns", "a", "aaaa", "cname", "mx", "ptr", "txt", "srv", "uri", "hinfo"}

\* C1: parsing the end-to-end zone text ($ORIGIN example.com., $TTL 1D, the
\* apex SOA written "@ IN SOA ... ( 2024010100 3600 900 604800 86400 )",
\* @ IN NS ns1.example.com. and www IN A 192.0.2.1) yields a document with
\* ttl 86400, exactly one SOA record whose serial is 2024010100, exactly one
\* NS record and exactly one A record with ip 192.0.2.1.
C1_EndToEndParse ==
    (zoneIn = E2EText /\ pc # "new")
        => /\ pc # "raised"
           /\ "$ttl" \in DOMAIN parser.zonedict
           /\ parser.zonedict["$ttl"] = PyInt(86400)
           /\ Len(Records(parser.zonedict, "soa")) = 1
           /\ Records(parser.zonedict, "soa")[1]["serial"] = [int |-> "2024010100"]
           /\ Len(Records(parser.zonedict, "ns")) = 1
           /\ Len(Records(parser.zonedict, "a")) = 1
           /\ Records(parser.zonedict, "a")[1]["ip"] = "192.0.2.1"

\* C2: validate() on the end-to-end zone text returns ok = true with an empty
\* list of diagnostics.
C2_EndToEndValid ==
    (zoneIn = E2EText /\ pc = "parsed" /\ calls = 1)
        => exc = "" /\ result = [ok |-> TRUE, errors |-> <<>>]

\* a document with exactly one $origin, one $ttl and at most one SOA record
RoundTripDocument(zonedict) ==
    /\ "$origin" \in DOMAIN zonedict
    /\ "$ttl" \in DOMAIN zonedict
    /\ Len(Records(zonedict, "soa")) <= 1

\* C3: round trip: for every document D with at most one SOA record, exactly
\* one $origin and one $ttl, parsing the text produced by render(D) yields,
\* for every record type, the same sequence of records as in D, in the same
\* order and with field-for-field equal values.
C3_RoundTrip ==
    (pc \in {"rendered", "reparsed"} /\ RoundTripDocument(parser.zonedict))
        => /\ exc = ""
           /\ pc = "reparsed" =>
                 /\ reparsed.exc = ""
                 /\ \A key \in RecordKeys :
                       Records(reparsed.zonedict, key) = Records(parser.zonedict, key)

\* C4: constructing the parser never raises, whatever the content of the
\* text: lines that fail dispatch are dropped and the well-formed lines kept.
C4_ConstructNeverRaises == pc # "raised"

\* C5: validate() never raises for any input text on which the parser object
\* could be constructed: every malformed record is reported as a diagnostic
\* and validate returns ok = false together with the diagnostics.
C5_ValidateNeverRaises == (pc = "parsed" /\ calls > 0) => exc = ""

\* an int in [900, 2^31 - 1]
InTtlRange(n) == ~IsNeg(n) /\ IntLeq(PyInt(900), n) /\ IntLeq(n, PyInt(MaxNat))

\* the TTL values stored in a zone dict: the value of $ttl, the timers of the
\* SOA records and the ttl of every record that has one
StoredTtls(zonedict) ==
    (IF "$ttl" \in DOMAIN zonedict THEN {zonedict["$ttl"]} ELSE {})
        \cup {Records(zonedict, "soa")[i][timer] :
                 i \in 1..Len(Records(zonedict, "soa")),
                 timer \in {"refresh", "retry", "expire", "minimum"}}
        \cup UNION {{Records(zonedict, key)[i]["ttl"] :
                        i \in {j \in 1..Len(Records(zonedict, key)) :
                                  "ttl" \in DOMAIN Records(zonedict, key)[j]}} :
                    key \in RecordKeys}

\* C8: every TTL value stored in a parsed document (the value of $ttl, the SOA
\* refresh, retry, expire and minimum timers, and the ttl of every record) is
\* an integer in [900, 2^31 - 1]: a record line with TTL 300 and a record line
\* without TTL never produce a stored ttl below 900.
C8_StoredTtlInRange ==
    pc = "parsed" => \A n \in StoredTtls(parser.zonedict) : InTtlRange(n)

\* C9: owner inheritance: a record line that begins with whitespace gets the
\* owner of the nearest preceding record line with an explicit owner, exactly
\* as written, whatever lines lie in between; "www 300 IN A 1.2.3.4" followed
\* by " 300 IN A 1.2.3.5" yields two A records that both have the name www.
C9_OwnerInherited ==
    (zoneIn \in InheritTexts /\ pc # "new")
        => /\ pc # "raised"
           /\ Len(Records(parser.zonedict, "a")) = 2
           /\ \A i \in 1..2 : Records(parser.zonedict, "a")[i]["name"] = "www"

\* the document that one line of the normalized text yields on its own, with
\* the origin that the lines before it have set: the documents of the lines
\* that are dispatched, in the order of the lines
DispatchedStep(st, record_line) ==
    With(parse_line(tokenize_line(record_line).val, st.current_origin, EmptyDict), LAMBDA r :
        [current_origin |-> r.current_origin,
         docs |-> IF r.exc = "" THEN Append(st.docs, r.val) ELSE st.docs])

Dispatched(text) ==
    FoldSeq(DispatchedStep, [current_origin |-> "", docs |-> <<>>], split(text, "\n")).docs

\* the records of one type of a sequence of documents, in the order of the documents
RecordsInOrder(docs, key) ==
    FoldSeq(LAMBDA list, doc : list \o Records(doc, key), <<>>, docs)

\* C13: for every record type, the records of the document are exactly the
\* records of the dispatched lines of that type in the order of the lines:
\* nothing is reordered, two equal lines give two records, and records with
\* the same owner are not merged.
C13_RecordsInInputOrder ==
    (pc = "parsed" /\ calls = 0)
        => \A key \in RecordKeys :
               Records(parser.zonedict, key) = RecordsInOrder(Dispatched(parser.text), key)

\* two equal lines have given two equal records, and two lines with one owner
\* have given two records in the order of the lines
C13_Witness ==
    /\ pc = "parsed"
    /\ calls = 0
    /\ zoneIn \in {"www 900 IN A 1.2.3.4\nwww 900 IN A 1.2.3.4", "www 900 IN A 1.2.3.4\n IN A 1.2.3.5"}
    /\ Len(Records(parser.zonedict, "a")) = 2
    /\ Records(parser.zonedict, "a")[1]["ip"] = "1.2.3.4"
    /\ Records(parser.zonedict, "a")[2]["ip"] \in {"1.2.3.4", "1.2.3.5"}

\* the value of the $ORIGIN directive that precedes the PTR line, '' when none does
OriginAt(before) == IF Len(before) = 0 THEN "" ELSE before[Len(before)]

\* the PTR record of the document has its fullname made of the field and of
\* the origin that was current at its line
PtrFullnameIs(field) ==
    \A before \in OriginsBefore, line \in PtrLines, after \in OriginsAfter :
        (pc = "parsed" /\ zoneIn = PtrText(before, line, after))
            => /\ Len(Records(parser.zonedict, "ptr")) = 1
               /\ Records(parser.zonedict, "ptr")[1]["fullname"]
                      = Records(parser.zonedict, "ptr")[1][field] \o "." \o OriginAt(before)

TtlCases ==
    {<<"@ IN NS ns1.a.", "ns", "">>, <<"p IN PTR host.example.com.", "ptr", "">>,
     <<"@ SOA ns1.a. adm.a. 7 1H 900 1W 1D", "soa", "">>,
     <<"www 900 IN A 1.2.3.4", "a", "900">>, <<"12 900 IN PTR h.example.com.", "ptr", "900">>}

\* C15: the record of a line that carries no TTL token has no ttl field at
\* all (it is neither filled from $TTL nor set to 0), and the record of a
\* line that carries a TTL token has that token's integer value as its ttl.
C15_TtlOnlyWhenGiven ==
    \A case \in TtlCases :
        (pc = "parsed" /\ zoneIn = case[1])
            => /\ Len(Records(parser.zonedict, case[2])) = 1
               /\ IF case[3] = ""
                  THEN "ttl" \notin DOMAIN Records(parser.zonedict, case[2])[1]
                  ELSE /\ "ttl" \in DOMAIN Records(parser.zonedict, case[2])[1]
                       /\ Records(parser.zonedict, case[2])[1]["ttl"] = [int |-> case[3]]

\* the value is a Python int: the model keeps an int as a record [int |-> digits]
\* and a str as a string
StoredAsInt(value) == Ch(ToString(value), 1) = "["

\* C16: a line of type SOA, MX, SRV or URI whose serial, preference, priority,
\* weight or port is not an integer literal is invalid as a whole and adds no
\* record; when the line is valid, each of these fields is stored as an
\* integer, the MX preference included.
C16_IntegerFieldsStrict ==
    \A case \in IntFieldCases :
        (zoneIn = case[1] /\ pc # "new")
            => /\ pc # "raised"
               /\ IF case[4]
                  THEN /\ Len(Records(parser.zonedict, case[2])) = 1
                       /\ \A i \in 1..Len(case[3]) :
                              StoredAsInt(Records(parser.zonedict, case[2])[1][case[3][i]])
                  ELSE Records(parser.zonedict, case[2]) = <<>>

\* the same for SOA, SRV and URI alone
IntegerFieldsStrictButMx ==
    \A case \in IntFieldCases :
        (zoneIn = case[1] /\ pc # "new" /\ case[2] # "mx")
            => /\ pc # "raised"
               /\ IF case[4]
                  THEN /\ Len(Records(parser.zonedict, case[2])) = 1
                       /\ \A i \in 1..Len(case[3]) :
                              StoredAsInt(Records(parser.zonedict, case[2])[1][case[3][i]])
                  ELSE Records(parser.zonedict, case[2]) = <<>>

\* the line is a $TTL directive: it begins with the keyword $TTL, in any case,
\* as a word of its own
IsTtlDirective(line) ==
    /\ Len(line) > 0
    /\ ~isspace(Ch(line, 1))
    /\ upper(splitWs(line)[1]) = "$TTL"

\* the number of $TTL directive lines of the text
TtlDirectives(text) ==
    Len(SelectSeq(split(text, "\n"), IsTtlDirective))

\* C17: whenever validate() returns, its diagnostics contain
\* "$ttl should be present exactly once." if and only if the number of $TTL
\* directive lines of the input text is different from one.
C17_TtlExactlyOnce ==
    (pc = "parsed" /\ calls > 0 /\ exc = "")
        => ((\E i \in 1..Len(result.errors) :
                 result.errors[i] = "$ttl should be present exactly once.")
              <=> TtlDirectives(zoneIn) # 1)

\* the text holds the other text
HasText(text, part) ==
    \E i \in 1..(Len(text) - Len(part) + 1) : SubSeq(text, i, i + Len(part) - 1) = part

\* the number of diagnostics of the last call of validate() that hold the text
Diagnostics(part) ==
    Cardinality({i \in 1..Len(result.errors) : HasText(result.errors[i], part)})

SoaLine(record) ==
    join(" ", <<IF "name" \in DOMAIN record THEN record["name"] ELSE "@">>
                \o (IF "ttl" \in DOMAIN record THEN <<str(record["ttl"])>> ELSE <<>>)
                \o <<"IN", "SOA", record["mname"], record["rname"], "(",
                      str(record["serial"]), str(record["refresh"]), str(record["retry"]),
                      str(record["expire"]), str(record["minimum"]), ")">>)

\* C20: the rendered text holds the SOA section if and only if the document
\* holds exactly one SOA record: with exactly one SOA record the text holds
\* the line of that record, and with more than one the section is empty and
\* the rest of the text is still produced.
C20_SoaSectionWritten ==
    (pc = "rendered" /\ Len(Records(parser.zonedict, "soa")) >= 1)
        => /\ exc = ""
           /\ IF Len(Records(parser.zonedict, "soa")) = 1
              THEN HasText(zoneOut, SoaLine(Records(parser.zonedict, "soa")[1]))
              ELSE ~HasText(zoneOut, "SOA")

\* the part of C20 about more than one SOA record
SoaSectionEmptied ==
    (pc = "rendered" /\ Len(Records(parser.zonedict, "soa")) >= 1)
        => /\ exc = ""
           /\ ~HasText(zoneOut, "SOA")

\* the record types that have a placeholder of their own in the template
RrKeys == {"ns", "a", "aaaa", "cname", "hinfo", "mx", "ptr", "txt", "srv", "uri"}

\* the fields of a record of the type that its line holds after the type; the
\* target of a URI record, which the line holds between quotes, is left out
RrFields(key) ==
    CASE key \in {"ns", "ptr"} -> <<"host">>
      [] key \in {"a", "aaaa"} -> <<"ip">>
      [] key = "cname" -> <<"alias">>
      [] key = "hinfo" -> <<"cpu", "system">>
      [] key = "mx" -> <<"preference", "host">>
      [] key = "txt" -> <<"txt">>
      [] key = "srv" -> <<"priority", "weight", "port", "target">>
      [] key = "uri" -> <<"priority", "weight">>

\* the line of a record: name, ttl when there is one, type, fields
RrLine(key, record) ==
    LET row == IF key = "txt" THEN QuoteTxt(record) ELSE record
    IN  join(" ", <<IF "name" \in DOMAIN row THEN row["name"] ELSE "@">>
                    \o (IF "ttl" \in DOMAIN row THEN <<str(row["ttl"])>> ELSE <<>>)
                    \o <<upper(key)>>
                    \o [k \in 1..Len(RrFields(key)) |->
                           StrOf(RrFields(key)[k], row[RrFields(key)[k]])])

\* the lines of the text whose second or third word is the type
TypeLines(text, type) ==
    SelectSeq(split(text, "\n"),
              LAMBDA line : \E k \in {2, 3} : k <= Len(splitWs(line)) /\ splitWs(line)[k] = type)

\* the lines of the type in the text are the lines of the records, one for
\* each record and in their order
OneLinePerRr(text, zonedict, key) ==
    LET got == TypeLines(text, upper(key))
        want == [i \in 1..Len(Records(zonedict, key)) |-> RrLine(key, Records(zonedict, key)[i])]
    IN  /\ Len(got) = Len(want)
        /\ \A i \in 1..Len(want) :
               IF key = "uri" THEN startswith(got[i], want[i] \o " ") ELSE got[i] = want[i]

\* C21: the rendered text holds, for each record type with a placeholder, one
\* line per record of that type in document order: every record appears
\* exactly once, on a line of its own, and none is lost or overwritten.
C21_OneLinePerRecord ==
    (pc = "rendered" /\ exc = "")
        => \A key \in RrKeys : OneLinePerRr(zoneOut, parser.zonedict, key)

\* the same for every type but URI
OneLinePerRecordButUri ==
    (pc = "rendered" /\ exc = "")
        => \A key \in RrKeys \ {"uri"} : OneLinePerRr(zoneOut, parser.zonedict, key)

\* C23: a key of a record type is in the document, and so in its JSON form,
\* only when at least one record of that type was parsed; this stays true
\* after any sequence of getdict() lookups and validate() calls.
C23_KeysOnlyWithRecords ==
    pc = "parsed"
        => \A key \in DOMAIN parser.zonedict \cap RecordKeys : Len(parser.zonedict[key]) >= 1

\* the same before the first lookup in the document returned by getdict()
KeysOnlyWithRecordsAsParsed ==
    (pc = "parsed" /\ parser.zonedict = construct(zoneIn).zonedict)
        => \A key \in DOMAIN parser.zonedict \cap RecordKeys : Len(parser.zonedict[key]) >= 1

\* the diagnostics of the last call of validate() hold one that begins with the text
Reported(msg) ==
    \E i \in 1..Len(result.errors) : startswith(result.errors[i], msg)

\* C24: whenever validate() returns, its diagnostics hold a "cname follower
\* without a hostname!" entry if and only if some CNAME line is immediately
\* followed by a line without an owner of its own; a CNAME line with an owner
\* that is followed by a line with an owner, or by nothing, gives no entry.
C24_CnameFollower ==
    \A case \in CnameCases :
        (zoneIn = CnameText(case) /\ pc = "parsed" /\ calls > 0 /\ exc = "")
            => (Reported("cname follower without a hostname!") <=> case.followed)

\* what _CheckRule_07 reports: the CNAME lines that have no owner of their own
CnameWithoutOwnerReported ==
    \A case \in CnameCases :
        (zoneIn = CnameText(case) /\ pc = "parsed" /\ calls > 0 /\ exc = "")
            => (Reported("cname follower without a hostname!")
                  <=> case.lines = "d IN A 1.2.3.5\n IN CNAME www\ne IN A 1.2.3.6")

\* C25: whenever validate() returns, its diagnostics hold "there is no valid
\* NS record after SOA!" if and only if no NS line whose owner is @ or the
\* placeholder of a line without owner comes after the first @ SOA line: a
\* text without SOA line and a text whose apex NS lines all precede the SOA
\* line get the entry, a text with an apex NS line after the SOA line does not.
C25_NsAfterSoa ==
    \A case \in NsCases :
        (zoneIn = NsText(case) /\ pc = "parsed" /\ calls > 0 /\ exc = "")
            => (Reported("there is no valid NS record after SOA!") <=> ~case.apex)

\* what _CheckRule_06 counts: the NS lines after the first @ SOA line whose
\* first character is @ or _, the owner _sub among them
NsAfterSoaByFirstCharacter ==
    \A case \in NsCases :
        (zoneIn = NsText(case) /\ pc = "parsed" /\ calls > 0 /\ exc = "")
            => (Reported("there is no valid NS record after SOA!") <=> ~case.counted)

\* a call of validate() that returns, after an earlier one that returned
ValidateAgain ==
    /\ calls >= 1
    /\ calls' = calls + 1
    /\ exc = ""
    /\ exc' = ""

\* C26: validate() is repeatable on one parser: a further call returns the
\* same ok flag and the same list of diagnostics as the call before it, no
\* diagnostic of the earlier call is carried over or duplicated.
C26_ValidateRepeatable ==
    [][ValidateAgain => result' = result]_vars

\* what a further call returns: the same ok flag, and the diagnostics of the
\* call before it followed by those of the first call once more
ValidateAppendsDiagnostics ==
    [][ValidateAgain =>
          /\ result'.ok = result.ok
          /\ result'.errors = result.errors \o SubSeq(result.errors, 1, Len(result.errors) \div calls)]_vars

\* C22: GenerateZoneFile never raises on the document of a parser object,
\* whatever it holds (no SOA record, several SOA records, no record of some
\* type): it completes and showtext() returns a text.
C22_RenderNeverRaises ==
    pc \in {"rendered", "reparsed"} => exc = ""

\* the same for the documents that hold an SOA record
RenderNeverRaisesWithSoa ==
    (pc \in {"rendered", "reparsed"} /\ "soa" \in DOMAIN parser.zonedict) => exc = ""

----------------------------------------------------------------------------
(* Specification SpecCall: one pass or predicate of ParseZoneFile is called
   on its own, on an argument the object can hold when the call is made *)

\* lines outside a parenthesis group, as _ShakeoffComments leaves them, with
\* their words: an owner line, a line that began with a blank, and a TXT
\* line whose quoted string holds a "("
PlainItems ==
    {[text |-> "www IN A 1.2.3.4", words |-> <<"www", "IN", "A", "1.2.3.4">>],
     [text |-> "_ IN A 1.2.3.5", words |-> <<"_", "IN", "A", "1.2.3.5">>],
     [text |-> "t IN TXT \"a (b\"", words |-> <<"t", "IN", "TXT", "\"a", "(b\"">>]}

SoaWords == <<"@", "SOA", "ns1.a.", "adm.a.", "7", "1H", "900", "1W", "1D">>

\* records whose fields are enclosed in "(" and ")", on one to five physical
\* lines, the parentheses apart from the fields or attached to them
GroupItems ==
    {[text |-> "@ SOA ns1.a. adm.a. ( 7 1H 900 1W 1D )", words |-> SoaWords],
     [text |-> "@ SOA ns1.a. adm.a. (7 1H 900 1W 1D)", words |-> SoaWords],
     [text |-> "@ SOA ns1.a. adm.a. (\n_ 7 1H\n_ 900 1W 1D\n_ )", words |-> SoaWords],
     [text |-> "@ SOA ns1.a. adm.a. (7\n_ 1H\n_ 900\n_ 1W\n_ 1D)", words |-> SoaWords],
     [text |-> "@ SOA ns1.a. (adm.a. 7\n_ 1H 900 1W 1D )", words |-> SoaWords],
     [text |-> "@ IN NS ( ns1.a. )", words |-> <<"@", "IN", "NS", "ns1.a.">>]}

LevelItems == PlainItems \cup GroupItems

RECURSIVE ItemSeqs(_, _)
\* the sequences of 1 to n of the items
ItemSeqs(items, n) ==
    IF n = 0 THEN {}
    ELSE LET shorter == ItemSeqs(items, n - 1)
         IN  {<<i>> : i \in items} \cup shorter \cup {Append(c, i) : c \in shorter, i \in items}

\* the text of a sequence of logical records
CaseText(case) == join("\n", [i \in 1..Len(case) |-> case[i].text])

LevelCases(items) == ItemSeqs(items, MaxLevelItems)

LevelReady ==
    /\ callFn = "Levelout"
    /\ callArg \in {CaseText(case) : case \in LevelCases(LevelItems)}

RECURSIVE Repeat(_, _)
\* the text made of n copies of s
Repeat(s, n) == IF n = 0 THEN "" ELSE s \o Repeat(s, n - 1)

HostAlphabet == {"a", "1", "-", "."}

\* the names of the spec's examples, names with a label of 63 and of 64
\* characters, and names of 253 and of 255 characters made of valid labels
HostPool ==
    {"example.com.", "example.com", "example.123.", "EXAMPLE.Com.", "www.example.com..",
     "a_b.com", "-a.com", "a-.com", "1a.2b", "123",
     Repeat("a", 63) \o ".com.", Repeat("a", 64) \o ".com.",
     Repeat(Repeat("a", 63) \o ".", 3) \o Repeat("b", 61) \o ".",
     Repeat(Repeat("a", 63) \o ".", 3) \o Repeat("b", 63) \o "."}

HostNames == TextsUpTo(HostAlphabet, MaxHostLen) \cup HostPool

HostReady ==
    /\ callFn = "check_hostname"
    /\ callArg \in HostNames

CallReady ==
    /\ (LevelReady \/ HostReady)
    /\ callOut = NoCallOut
    /\ callPc = "ready"

\* parser._Levelout() with self._text = callArg; the outcome holds the new self._text
CallLevelout ==
    /\ callPc = "ready"
    /\ callFn = "Levelout"
    /\ callOut' = Ok(Levelout(callArg))
    /\ callPc' = "done"
    /\ UNCHANGED <<callFn, callArg, timeVars, tokVars, zoneVars>>

\* parser.__check_hostname(callArg)
CallCheckHostname ==
    /\ callPc = "ready"
    /\ callFn = "check_hostname"
    /\ callOut' = Outcome(check_hostname(callArg), FALSE)
    /\ callPc' = "done"
    /\ UNCHANGED <<callFn, callArg, timeVars, tokVars, zoneVars>>

CallNext == CallLevelout \/ CallCheckHostname

CallInit == CallReady /\ TimeIdle /\ TokIdle /\ ZoneIdle

SpecCall == CallInit /\ [][CallNext]_vars

----------------------------------------------------------------------------
(* Claims about single passes and predicates, checked under SpecCall *)

\* the lines of the text that _Levelout left, split into their words
LevelledWords(text) ==
    LET lines == split(text, "\n") IN [i \in 1..Len(lines) |-> splitWs(lines[i])]

\* the flattened text has one line for each of the logical records, and the
\* line holds the words of the record in their order, without parentheses
OneLinePerRecord(case, text) ==
    LevelledWords(text) = [i \in 1..Len(case) |-> case[i].words]

\* C12: _Levelout turns every record whose fields are enclosed in "(" and ")"
\* on any number of physical lines into exactly one line that holds the
\* tokens of the record in their order and no parenthesis, and leaves every
\* line outside a group as exactly one line: there are as many lines in its
\* result as there are logical records.
C12_OneLinePerRecord ==
    (callFn = "Levelout" /\ callPc = "done")
        => \A case \in LevelCases(LevelItems) :
               CaseText(case) = callArg => OneLinePerRecord(case, callOut.val)

\* the same on the texts that hold no quoted parenthesis
LevelHoldsWithoutQuotedParenthesis ==
    (callFn = "Levelout" /\ callPc = "done")
        => \A case \in LevelCases(LevelItems) :
               (CaseText(case) = callArg /\ \A i \in 1..Len(case) : case[i].text # "t IN TXT \"a (b\"")
                   => OneLinePerRecord(case, callOut.val)

\* the name without one trailing dot
WithoutRootDot(name) ==
    IF Len(name) > 0 /\ Ch(name, Len(name)) = "." THEN SubSeq(name, 1, Len(name) - 1) ELSE name

\* a label of 1 to 63 letters, digits and hyphens that neither begins nor ends
\* with a hyphen
ValidLabel(label) ==
    /\ Len(label) \in 1..63
    /\ \A i \in 1..Len(label) :
           Ch(label, i) \in DOMAIN UpperMap \cup DOMAIN LowerMap \cup DigitChars \cup {"-"}
    /\ Ch(label, 1) # "-"
    /\ Ch(label, Len(label)) # "-"

\* the hostname predicate as the specification states it
ValidHostname(name) ==
    LET labels == split(WithoutRootDot(name), ".")
    IN  /\ \A i \in 1..Len(labels) : ValidLabel(labels[i])
        /\ Len(WithoutRootDot(name)) <= 253
        /\ \E i \in 1..Len(labels[Len(labels)]) : Ch(labels[Len(labels)], i) \notin DigitChars

\* C18: __check_hostname returns true exactly for the names that, after one
\* trailing dot is removed, have only labels of 1 to 63 letters, digits and
\* hyphens without a leading or trailing hyphen, are at most 253 characters
\* long, and have a last label that is not all digits.
C18_HostnamePredicate ==
    (callFn = "check_hostname" /\ callPc = "done")
        => callOut = Ok(ValidHostname(callArg))

\* the same on the names of at most 253 characters whose last label is not
\* all digits
HostnamePredicateOnLabels ==
    (callFn = "check_hostname" /\ callPc = "done" /\ callArg # ""
       /\ Len(WithoutRootDot(callArg)) <= 253
       /\ ~IsDigits(split(WithoutRootDot(callArg), ".")[Len(split(WithoutRootDot(callArg), "."))]))
        => callOut = Ok(ValidHostname(callArg))

=============================================================================
